---- MODULE Spec2Model ----
(***************************************************************************)
(* Job lifecycle and concurrency control of the media converter            *)
(* (src/app.py): TaskRegistry (conversion_progress), AdmissionGate         *)
(* (active_downloads), the process-handle registry (active_processes),     *)
(* ConversionPipeline (run_conversion), the Fetcher's download thread and  *)
(* its progress_hook, ProcessSupervisor (run_ffmpeg_with_progress),        *)
(* StallMonitor (check_stalled_downloads), Cancel (cancel_download) and    *)
(* FetchResult (download_file).                                            *)
(*                                                                         *)
(* Time.  Time is counted in seconds and advances only in the StallMonitor *)
(* action, by one scan interval (the loop's sleep(15)).  A timestamp field *)
(* (last_update) is kept as its age, now - last_update.  Pure Python       *)
(* statements take no time: time may pass only while every pipeline run is *)
(* at a blocking call (semaphore wait, network, child process).            *)
(*                                                                         *)
(* Percent values are kept in hundredths (P(n) = n percent).               *)
(***************************************************************************)
EXTENDS Integers, Sequences, FiniteSets, TLC

\* ----------------------------------------------------------------- bounds
MaxOtherRuns == 5       \* pipeline runs of other tasks that may hold a permit
TotalBytes == 2         \* size of one fetched stream, in progress callbacks
MaxStreams == 2         \* streams one fetch may consist of
MaxPendingRemovals == 1 \* deferred removals of one task pending at a time
MaxDuration == 24000    \* durations of a video, in seconds, go from 0 to this ...
HugeDuration == 10000000 \* ... and there is one absurdly long video
TinySize == 500         \* a near-empty file (below the plausible minimum)
FineSize == 2000        \* a plausible file
LongErrorLen == 400     \* the length of a long exception text
MaxInfoCalls == 3       \* video-info requests made in the runs of the cache
MaxInfoTicks == 2       \* times the clock of the cache moves in one run

\* ------------------------------------------------------ program constants
MAX_CONCURRENT_DOWNLOADS == 5
DOWNLOAD_TIMEOUT == 3600
FFMPEG_TIMEOUT == 1800
CLEANUP_AGE == 600
ERR_LIMIT == 300
STALL_TIMEOUT == 180
PROCESSING_STALL_TIMEOUT == 600
SCAN_INTERVAL == 15
ACQUIRE_TIMEOUT == 120
REMOVAL_DELAY == 30
PING_INTERVAL == 10
MIN_OUTPUT_SIZE == 1000
CACHE_LIMIT == 100
CACHE_TTL == 300

\* The task followed in detail.  Tasks share nothing but the AdmissionGate (files and
\* registry entries are keyed by the task's own UUID), so every other task is present
\* only as a holder of permits: other_runs.
Tasks == {"t1"}

P(n) == n * 100

Terminal == {"completed", "error", "cancelled"}
Stages == <<"initializing", "connecting", "starting", "downloading",
            "processing", "embedding", "completed">>

\* AUDIO_FORMATS: audio format id -> file extension and MIME type
AUDIO_FORMATS ==
  [mp3  |-> [extension |-> "mp3",  mime |-> "audio/mpeg"],
   aac  |-> [extension |-> "m4a",  mime |-> "audio/mp4"],
   opus |-> [extension |-> "opus", mime |-> "audio/opus"],
   ogg  |-> [extension |-> "ogg",  mime |-> "audio/ogg"]]

\* what Submit may ask for
FormatTypes == {"audio", "video"}
AudioFormatIds == {"mp3", "aac"}
Qualities == {"best", "720p"}
\* the container the Fetcher may deliver
SrcExts == {"mp4", "m4a", "webm"}

NoFiles == [n \in {} |-> 0]
InTempFolder(name) == name = "_thumb.jpg"
DownloadFolder(fs) == {n \in DOMAIN fs : ~InTempFolder(n)}
RemoveFile(fs, name) == [n \in DOMAIN fs \ {name} |-> fs[n]]
WriteFile(fs, name, size) == [n \in DOMAIN fs \cup {name} |-> IF n = name THEN size ELSE fs[n]]

\* a TaskState as the code first stores it: status, percent, message, last_update.
\* age is now - last_update; elapsed tells whether the supervisor appended its
\* "(Ns elapsed)" note to the message; lmu whether last_message_update is set.  The
\* byte counters, speed and eta that progress_hook also stores are read by nobody
\* and are left out.
NewEntry(status, percent, message) ==
  [status |-> status, percent |-> percent, message |-> message, age |-> 0,
   elapsed |-> FALSE, lmu |-> FALSE,
   filename |-> "", file_size |-> -1, format |-> "", has_thumbnail |-> FALSE]

\* dict assignment d[k] = v and d.pop(k, None)
Put(d, k, v) == [x \in DOMAIN d \cup {k} |-> IF x = k THEN v ELSE d[x]]
Pop(d, k) == [x \in DOMAIN d \ {k} |-> d[x]]

VARIABLES
  conversion_progress,   \* TaskRegistry: task id -> TaskState (a dict: partial function)
  active_downloads,      \* AdmissionGate: the semaphore's value (free permits)
  other_runs,            \* permits held by pipeline runs of tasks outside Tasks
  active_processes,      \* set of task ids with a registered process handle
  proc,                  \* per task: state of the child process last started for it
  files,                 \* per task: task-prefixed files on disk, name -> size
  opts,                  \* per task: what Submit asked for
  run,                   \* per task: the pipeline thread (pc and locals)
  dl,                    \* per task: the Fetcher's download thread
  removals,              \* per task: ages of the scheduled deferred removals
  aged,                  \* per task: names of the files older than CLEANUP_AGE (mtime)
  timing,                \* durations and timeouts of a pipeline run (calculate_timeout)
  locking,               \* who holds progress_lock and process_lock, and where each thread is
  video_info_cache,      \* VideoInfoCache: entries (url hash, cached_at) in insertion order
  info_calls             \* the clock and the get_video_info calls in progress

vars == <<conversion_progress, active_downloads, other_runs, active_processes,
          proc, files, opts, run, dl, removals, aged, timing,
          locking, video_info_cache, info_calls>>

NoOpts == [format |-> "", audio_format |-> "", quality |-> ""]
NoRun == [pc |-> "unsubmitted", acquired |-> FALSE, waited |-> 0, err |-> "",
          success |-> FALSE, ret |-> "", stage |-> "", ff_in |-> {}, ff_out |-> "",
          since_ping |-> 0, thumb_ok |-> FALSE, src |-> "", out |-> "", tmp |-> "",
          needs_full |-> TRUE, final_size |-> 0, released |-> 0,
          fetches |-> 0, encodes |-> 0]
NoDl == [st |-> "none", stream |-> 0, nstreams |-> 0, bytes |-> 0, known |-> FALSE]

\* the threads that take progress_lock or process_lock
Threads == {"monitor", "janitor", "cancel", "handler", "poll", "supervisor", "hook", "fetch"}

\* both locks free (threading.Lock(), l.77 and l.82), every thread outside its locked regions
NoLocking == [progress_lock |-> "", process_lock |-> "", at |-> [th \in Threads |-> "idle"]]

\* the callers of get_video_info that may run at the same time
InfoCallers == {"a", "b"}

\* no video-info request is in progress
NoInfoCalls == [now |-> 0, ticks |-> 0, left |-> 0, at |-> [c \in InfoCallers |-> [pc |-> "idle", url |-> 0]]]

\* no run_conversion has computed its timeouts
NoTiming == [pc |-> "idle", duration |-> 0, video_duration |-> 0, download_timeout |-> 0,
             ffmpeg_timeout |-> 0, passed |-> 0]

Init ==
  /\ conversion_progress = [t \in {} |-> 0]
  /\ active_downloads = MAX_CONCURRENT_DOWNLOADS
  /\ other_runs = 0
  /\ active_processes = {}
  /\ proc = [t \in Tasks |-> "none"]
  /\ files = [t \in Tasks |-> NoFiles]
  /\ opts = [t \in Tasks |-> NoOpts]
  /\ run = [t \in Tasks |-> NoRun]
  /\ dl = [t \in Tasks |-> NoDl]
  /\ removals = [t \in Tasks |-> {}]
  /\ aged = [t \in Tasks |-> {}]
  /\ timing = NoTiming
  /\ locking = NoLocking
  /\ video_info_cache = <<>>
  /\ info_calls = NoInfoCalls

\* ------------------------------------------------ registry writes (helpers)
\* conversion_progress[task_id].update({status, percent, message, last_update})
StageUpdate(e, status, percent, message) ==
  [e EXCEPT !.status = status, !.percent = percent, !.message = message,
            !.elapsed = FALSE, !.age = 0]

\* raise: control goes to the except block; the other locals are dead from here on
Raised(r, err) == [pc |-> "except", acquired |-> r.acquired, waited |-> 0, err |-> err,
                   success |-> FALSE, ret |-> "", stage |-> "", ff_in |-> {},
                   ff_out |-> "", since_ping |-> 0, thumb_ok |-> FALSE, src |-> "",
                   out |-> "", tmp |-> "", needs_full |-> TRUE, final_size |-> 0,
                   released |-> r.released,
                   fetches |-> r.fetches, encodes |-> r.encodes]
Raise(t, err) == run' = [run EXCEPT ![t] = Raised(@, err)]

\* a step of run_conversion that updates the entry: a missing entry raises KeyError
RunUpdate(t, status, percent, message, next) ==
  IF t \in DOMAIN conversion_progress
  THEN /\ conversion_progress' = [conversion_progress EXCEPT
                                    ![t] = StageUpdate(@, status, percent, message)]
       /\ run' = [run EXCEPT ![t].pc = next]
  ELSE /\ conversion_progress' = conversion_progress
       /\ Raise(t, "KeyError")

\* os.path.getmtime after a step: a file that is gone or was written in the step is
\* not older than CLEANUP_AGE
StillAged(ag, fs2, written) == {n \in ag : n \in DOMAIN fs2 /\ n \notin written}
Changed(fs, fs2) == {n \in DOMAIN fs2 : n \notin DOMAIN fs \/ fs2[n] # fs[n]}

\* kill_process_tree / process.kill(): idempotent, a finished process stays as it is
Killed(p) == IF p = "running" THEN "killed" ELSE p

\* faulty variant of CleanupFiles: the listing loop stops after the first match
CleanupFirstOnly(fs) ==
  IF DOMAIN fs = {} THEN fs ELSE RemoveFile(fs, CHOOSE n \in DOMAIN fs : TRUE)

\* every file whose name starts with the task id, in both folders, is removed
CleanupFiles(fs) == NoFiles

\* ------------------------------------------------------------------ Submit
\* text is a sequence of characters; a URL is what urlparse makes of it: the host
\* (netloc), the path and the value of the query parameter v (empty when absent)
Str ==
  [www       |-> <<"w","w","w",".">>,
   m         |-> <<"m",".">>,
   web       |-> <<"w","e","b",".">>,
   youtube   |-> <<"y","o","u","t","u","b","e",".","c","o","m">>,
   youtu_be  |-> <<"y","o","u","t","u",".","b","e">>,
   facebook  |-> <<"f","a","c","e","b","o","o","k",".","c","o","m">>,
   fb_watch  |-> <<"f","b",".","w","a","t","c","h">>,
   fb_com    |-> <<"f","b",".","c","o","m">>,
   instagram |-> <<"i","n","s","t","a","g","r","a","m",".","c","o","m">>,
   tiktok    |-> <<"t","i","k","t","o","k",".","c","o","m">>,
   vm_tiktok |-> <<"v","m",".","t","i","k","t","o","k",".","c","o","m">>,
   twitter   |-> <<"t","w","i","t","t","e","r",".","c","o","m">>,
   x_com     |-> <<"x",".","c","o","m">>,
   t_co      |-> <<"t",".","c","o">>,
   vimeo     |-> <<"v","i","m","e","o",".","c","o","m">>,
   netflix   |-> <<"n","e","t","f","l","i","x",".","c","o","m">>,
   reddit    |-> <<"r","e","d","d","i","t",".","c","o","m">>,
   watch     |-> <<"/","w","a","t","c","h">>,
   shorts    |-> <<"/","s","h","o","r","t","s","/">>,
   feed      |-> <<"/","f","e","e","d">>,
   id        |-> <<"a","b">>,
   not_a_url |-> <<"n","o","t"," ","a"," ","u","r","l">>]

\* [a-zA-Z0-9_-] of the shorts pattern, over the characters in use
IdChars == {"a","b","c","d","e","f","h","i","k","l","m","n","o","r","s","t","u","v","w","x","y"}

StartsWith(s, p) == Len(s) >= Len(p) /\ SubSeq(s, 1, Len(p)) = p
EndsWith(s, p) == Len(s) >= Len(p) /\ SubSeq(s, Len(s) - Len(p) + 1, Len(s)) = p
\* p in s
Contains(s, p) == \E i \in 0..(Len(s) - Len(p)) : SubSeq(s, i + 1, i + Len(p)) = p

\* s.replace(p, '')
RECURSIVE Replace(_, _)
Replace(s, p) ==
  IF Len(s) < Len(p) THEN s
  ELSE IF StartsWith(s, p) THEN Replace(SubSeq(s, Len(p) + 1, Len(s)), p)
  ELSE <<Head(s)>> \o Replace(Tail(s), p)

\* s.strip('/')
RECURSIVE Strip(_)
Strip(s) ==
  IF s = <<>> THEN s
  ELSE IF Head(s) = "/" THEN Strip(Tail(s))
  ELSE IF s[Len(s)] = "/" THEN Strip(SubSeq(s, 1, Len(s) - 1))
  ELSE s

RECURSIVE TakeId(_)
TakeId(s) ==
  IF s # <<>> /\ Head(s) \in IdChars THEN <<Head(s)>> \o TakeId(Tail(s)) ELSE <<>>

\* re.search(r'/shorts/([a-zA-Z0-9_-]+)', path): the group, or empty without a match
RECURSIVE ShortsId(_)
ShortsId(path) ==
  IF Len(path) <= Len(Str.shorts) THEN <<>>
  ELSE IF StartsWith(path, Str.shorts) /\ path[Len(Str.shorts) + 1] \in IdChars
       THEN TakeId(SubSeq(path, Len(Str.shorts) + 1, Len(path)))
  ELSE ShortsId(Tail(path))

Url(netloc, path, v) == [netloc |-> netloc, path |-> path, v |-> v]
EmptyUrl == Url(<<>>, <<>>, <<>>)
WatchUrl(id) == Url(Str.www \o Str.youtube, Str.watch, id)

\* normalize_youtube_url: short links and shorts become the canonical watch URL
normalize_youtube_url(url) ==
  LET domain == Replace(Replace(url.netloc, Str.www), Str.m)
  IN IF Contains(domain, Str.youtube)
     THEN IF url.v # <<>> THEN WatchUrl(url.v)
          ELSE IF Contains(url.path, Str.shorts) /\ ShortsId(url.path) # <<>>
               THEN WatchUrl(ShortsId(url.path))
          ELSE url
     ELSE IF Contains(domain, Str.youtu_be) /\ Strip(url.path) # <<>>
          THEN WatchUrl(Strip(url.path))
     ELSE url

\* the patterns validate_url looks for inside the host
PlatformPatterns ==
  {Str.facebook, Str.fb_watch, Str.fb_com, Str.instagram, Str.tiktok, Str.vm_tiktok,
   Str.twitter, Str.x_com, Str.t_co}

\* validate_url
validate_url(url) ==
  LET domain == Replace(Replace(Replace(url.netloc, Str.www), Str.m), Str.web)
  IN IF domain \in {Str.youtube, Str.youtu_be}
     THEN IF domain = Str.youtube
          THEN url.v # <<>> \/ Contains(url.path, Str.shorts)
                            \/ Contains(url.path, Str.watch)
          ELSE Len(url.path) > 1
     ELSE \E p \in PlatformPatterns : Contains(domain, p)

\* the URLs Submit is tried with
Urls ==
  {EmptyUrl,
   Url(<<>>, Str.not_a_url, <<>>),
   WatchUrl(Str.id),
   Url(Str.youtube, Str.feed, <<>>),
   Url(Str.youtube, Str.shorts \o Str.id, <<>>),
   Url(Str.youtu_be, <<"/">> \o Str.id, <<>>),
   Url(Str.youtu_be, <<"/">>, <<>>),
   Url(Str.vm_tiktok, <<"/">> \o Str.id, <<>>),
   Url(Str.www \o Str.instagram, <<"/">> \o Str.id, <<>>),
   Url(Str.vimeo, <<"/">> \o Str.id, <<>>),
   Url(Str.netflix, <<"/">> \o Str.id, <<>>),
   Url(Str.www \o Str.reddit, <<"/">> \o Str.id, <<>>)}

Request(url, format, audioFormat, quality) ==
  [url |-> url, format |-> format, audioFormat |-> audioFormat, quality |-> quality]

\* convert_media: an empty or refused URL is answered 400 and nothing happens; any
\* other request creates the entry and starts the thread. An audio format outside
\* AUDIO_FORMATS becomes mp3; the output kind is taken as sent.
convert_media(t, data) ==
  LET url == normalize_youtube_url(data.url)
      audio_format == IF data.format = "audio" /\ data.audioFormat \notin DOMAIN AUDIO_FORMATS
                      THEN "mp3" ELSE data.audioFormat
  IN /\ run[t].pc = "unsubmitted"
     /\ IF data.url = EmptyUrl \/ ~validate_url(url)
        THEN UNCHANGED vars
        ELSE /\ conversion_progress' = Put(conversion_progress, t,
                                  NewEntry("initializing", P(1), "Preparing download..."))
             /\ opts' = [opts EXCEPT ![t] = [format |-> data.format,
                                             audio_format |-> audio_format,
                                             quality |-> data.quality]]
             /\ run' = [run EXCEPT ![t].pc = "acquire"]
             /\ UNCHANGED <<active_downloads, other_runs, active_processes, proc, files,
                            dl, removals, aged, timing, locking, video_info_cache, info_calls>>

\* ------------------------------------------------------------ AdmissionGate
\* faulty variant of Acquire: the permit is taken without looking at the counter
AcquireUnguarded(t) ==
  /\ run[t].pc = "acquire"
  /\ active_downloads' = active_downloads - 1
  /\ run' = [run EXCEPT ![t].pc = "connecting", ![t].acquired = TRUE, ![t].waited = 0]
  /\ UNCHANGED <<conversion_progress, other_runs, active_processes, proc, files, opts,
                 dl, removals,
                 aged, timing, locking, video_info_cache, info_calls>>

\* active_downloads.acquire(timeout=120) succeeds
Acquire(t) ==
  /\ run[t].pc = "acquire"
  /\ active_downloads > 0
  /\ active_downloads' = active_downloads - 1
  /\ run' = [run EXCEPT ![t].pc = "connecting", ![t].acquired = TRUE, ![t].waited = 0]
  /\ UNCHANGED <<conversion_progress, other_runs, active_processes, proc, files, opts,
                 dl, removals,
                 aged, timing, locking, video_info_cache, info_calls>>

\* faulty variant of AcquireTimeout: after the wait the run goes on without a permit
AcquireTimeoutProceeds(t) ==
  /\ run[t].pc = "acquire"
  /\ active_downloads = 0
  /\ run[t].waited >= ACQUIRE_TIMEOUT
  /\ run' = [run EXCEPT ![t].pc = "connecting", ![t].waited = 0]
  /\ UNCHANGED <<conversion_progress, active_downloads, other_runs, active_processes,
                 proc, files, opts, dl, removals,
                 aged, timing, locking, video_info_cache, info_calls>>

\* active_downloads.acquire(timeout=120) returns False after 120 s
AcquireTimeout(t) ==
  /\ run[t].pc = "acquire"
  /\ active_downloads = 0
  /\ run[t].waited >= ACQUIRE_TIMEOUT
  /\ Raise(t, "Server busy")
  /\ UNCHANGED <<conversion_progress, active_downloads, other_runs, active_processes,
                 proc, files, opts, dl, removals,
                 aged, timing, locking, video_info_cache, info_calls>>

\* run_conversion of a task outside Tasks takes a permit ...
OtherAcquire ==
  /\ other_runs < MaxOtherRuns
  /\ active_downloads > 0
  /\ active_downloads' = active_downloads - 1
  /\ other_runs' = other_runs + 1
  /\ UNCHANGED <<conversion_progress, active_processes, proc, files, opts, run, dl, removals, aged, timing, locking, video_info_cache, info_calls>>

\* ... and gives it back in its finally block
OtherRelease ==
  /\ other_runs > 0
  /\ active_downloads' = active_downloads + 1
  /\ other_runs' = other_runs - 1
  /\ UNCHANGED <<conversion_progress, active_processes, proc, files, opts, run, dl, removals, aged, timing, locking, video_info_cache, info_calls>>

\* -------------------------------------------- run_conversion: before fetch
\* "connecting" update (lines 911-917)
RunConnecting(t) ==
  /\ run[t].pc = "connecting"
  /\ RunUpdate(t, "connecting", P(2), "Connecting to server...", "preinfo")
  /\ UNCHANGED <<active_downloads, other_runs, active_processes, proc, files, opts, dl, removals, aged, timing, locking, video_info_cache, info_calls>>

\* metadata-only extract_info; a failure only changes the assumed duration
RunPreInfo(t) ==
  /\ run[t].pc = "preinfo"
  /\ run' = [run EXCEPT ![t].pc = "starting"]
  /\ UNCHANGED <<conversion_progress, active_downloads, other_runs, active_processes,
                 proc, files, opts, dl, removals,
                 aged, timing, locking, video_info_cache, info_calls>>

\* "starting" update (lines 960-966)
RunStarting(t) ==
  /\ run[t].pc = "starting"
  /\ RunUpdate(t, "starting", P(5), "Starting download...", "spawn_dl")
  /\ UNCHANGED <<active_downloads, other_runs, active_processes, proc, files, opts, dl, removals, aged, timing, locking, video_info_cache, info_calls>>

\* dl_thread.start(): the Fetcher begins; how many streams it fetches and whether it
\* knows their size is the source's business
RunSpawnDownload(t) ==
  /\ run[t].pc = "spawn_dl"
  /\ \E n \in 1..MaxStreams, k \in BOOLEAN :
       dl' = [dl EXCEPT ![t] = [st |-> "running", stream |-> 1, nstreams |-> n,
                                bytes |-> 0, known |-> k]]
  /\ run' = [run EXCEPT ![t].pc = "wait_dl", ![t].fetches = @ + 1]
  /\ UNCHANGED <<conversion_progress, active_downloads, other_runs, active_processes,
                 proc, files, opts, removals,
                 aged, timing, locking, video_info_cache, info_calls>>

\* ----------------------------------------------------------- progress_hook
HookPercent(e, downloaded, total) ==
  IF total > 0
  THEN LET p == (downloaded * P(85)) \div total IN IF p < P(85) THEN p ELSE P(85)
  ELSE LET p == e.percent + 30 IN IF p < P(85) THEN p ELSE P(85)

\* progress_hook(d, task_id) with d['status'] == 'downloading'; late tells whether more
\* than 5 s passed since last_message_update
HookDownloading(e, downloaded, total, late) ==
  LET touched == [e EXCEPT !.age = 0]
      percent == HookPercent(e, downloaded, total)
      diff == IF percent >= e.percent THEN percent - e.percent ELSE e.percent - percent
  IN IF diff >= 50 \/ late \/ ~e.lmu
     THEN [touched EXCEPT !.status = "downloading", !.percent = percent,
                          !.message = "Downloading...", !.elapsed = FALSE, !.lmu = TRUE]
     ELSE touched

\* progress_hook(d, task_id) with d['status'] == 'finished'
HookFinished(e) ==
  StageUpdate(e, "processing", P(87), "Download complete. Processing file...")

\* the hook does nothing for an id that is not in the registry
progress_hook(cp, t, e) == IF t \in DOMAIN cp THEN [cp EXCEPT ![t] = e] ELSE cp

\* ------------------------------------------- the Fetcher's download thread
\* the Fetcher received more bytes of the current stream and reports them
DlProgress(t) ==
  /\ dl[t].st = "running"
  /\ dl[t].bytes < TotalBytes
  /\ LET b == dl[t].bytes + 1
         total == IF dl[t].known THEN TotalBytes ELSE 0
     IN /\ dl' = [dl EXCEPT ![t].bytes = b]
        /\ files' = [files EXCEPT ![t] = WriteFile(@, ".part", TinySize)]
        /\ \E late \in BOOLEAN :
             conversion_progress' =
               IF t \in DOMAIN conversion_progress
               THEN progress_hook(conversion_progress, t,
                      HookDownloading(conversion_progress[t], b, total, late))
               ELSE conversion_progress
  /\ UNCHANGED <<active_downloads, other_runs, active_processes, proc, opts, run, removals, timing, locking, video_info_cache, info_calls>>
  /\ aged' = [aged EXCEPT ![t] = StillAged(@, files'[t], {".part"})]

\* one stream is complete: the 'finished' callback; after the last stream the fetched
\* file <id>.<ext> replaces the partial file
DlStreamFinished(t) ==
  /\ dl[t].st = "running"
  /\ dl[t].stream <= dl[t].nstreams
  /\ dl[t].bytes = TotalBytes
  /\ conversion_progress' =
       IF t \in DOMAIN conversion_progress
       THEN progress_hook(conversion_progress, t, HookFinished(conversion_progress[t]))
       ELSE conversion_progress
  /\ IF dl[t].stream < dl[t].nstreams
     THEN /\ dl' = [dl EXCEPT ![t].stream = @ + 1, ![t].bytes = 0]
          /\ files' = files
     ELSE /\ dl' = [dl EXCEPT ![t].stream = @ + 1]
          /\ \E ext \in SrcExts, size \in {TinySize, FineSize} :
               files' = [files EXCEPT
                           ![t] = WriteFile(RemoveFile(@, ".part"), "." \o ext, size)]
  /\ UNCHANGED <<active_downloads, other_runs, active_processes, proc, opts, run, removals, timing, locking, video_info_cache, info_calls>>
  /\ aged' = [aged EXCEPT ![t] = StillAged(@, files'[t], Changed(files[t], files'[t]))]

\* extract_info returned: info_data is set, download_completed is set
DlReturn(t) ==
  /\ dl[t].st = "running"
  /\ dl[t].stream > dl[t].nstreams
  /\ dl' = [dl EXCEPT ![t] = [NoDl EXCEPT !.st = "ok"]]
  /\ UNCHANGED <<conversion_progress, active_downloads, other_runs, active_processes,
                 proc, files, opts, run, removals,
                 aged, timing, locking, video_info_cache, info_calls>>

\* extract_info raised: download_error is set, download_completed is set
DlFail(t) ==
  /\ dl[t].st = "running"
  /\ dl' = [dl EXCEPT ![t] = [NoDl EXCEPT !.st = "err"]]
  /\ UNCHANGED <<conversion_progress, active_downloads, other_runs, active_processes,
                 proc, files, opts, run, removals,
                 aged, timing, locking, video_info_cache, info_calls>>

\* ------------------------------------------- run_conversion: after the fetch
\* download_completed.wait(timeout=download_timeout) expired
RunDownloadTimeout(t) ==
  /\ run[t].pc = "wait_dl"
  /\ dl[t].st = "running"
  /\ Raise(t, "Download timed out")
  /\ UNCHANGED <<conversion_progress, active_downloads, other_runs, active_processes,
                 proc, files, opts, dl, removals,
                 aged, timing, locking, video_info_cache, info_calls>>

\* a text of n characters
RECURSIVE Fill(_)
Fill(n) ==
  IF n = 0 THEN ""
  ELSE IF n % 2 = 1 THEN "e" \o Fill(n - 1)
  ELSE LET half == Fill(n \div 2) IN half \o half

\* what the Fetcher's exception may say: a short text, or one of LongErrorLen characters
DownloadErrors == {"download error", Fill(LongErrorLen)}

\* the download thread finished: its error is re-raised, else go on
RunDownloadDone(t) ==
  /\ run[t].pc = "wait_dl"
  /\ dl[t].st \in {"ok", "err"}
  /\ IF dl[t].st = "err" THEN \E e \in DownloadErrors : Raise(t, e)
                         ELSE run' = [run EXCEPT ![t].pc = "upd86"]
  /\ UNCHANGED <<conversion_progress, active_downloads, other_runs, active_processes,
                 proc, files, opts, dl, removals,
                 aged, timing, locking, video_info_cache, info_calls>>

\* "processing 86" update (lines 1002-1008)
RunLocating(t) ==
  /\ run[t].pc = "upd86"
  /\ RunUpdate(t, "processing", P(86), "Download complete. Locating file...", "locate")
  /\ UNCHANGED <<active_downloads, other_runs, active_processes, proc, files, opts, dl, removals, aged, timing, locking, video_info_cache, info_calls>>

\* the fixed extension list, in the order the code tries it
LocateExts == <<".mp4", ".m4a", ".mp3", ".webm", ".mkv", ".opus", ".ogg", ".wav", ".flac">>

\* the files the locate step may settle on: the first listed extension that exists,
\* else any task-prefixed file of the download folder
Located(fs) ==
  LET hits == {i \in 1..Len(LocateExts) : LocateExts[i] \in DOMAIN fs}
  IN IF hits # {}
     THEN {LocateExts[CHOOSE i \in hits : \A j \in hits : i <= j]}
     ELSE DownloadFolder(fs)

RunLocate(t) ==
  /\ run[t].pc = "locate"
  /\ IF Located(files[t]) = {}
     THEN Raise(t, "Downloaded file not found")
     ELSE \E f \in Located(files[t]) :
            run' = [run EXCEPT ![t].src = f,
                               ![t].pc = IF opts[t].format = "audio" THEN "a_upd88"
                                                                     ELSE "v_branch"]
  /\ UNCHANGED <<conversion_progress, active_downloads, other_runs, active_processes,
                 proc, files, opts, dl, removals,
                 aged, timing, locking, video_info_cache, info_calls>>

\* ------------------------------ ProcessSupervisor: run_ffmpeg_with_progress
\* the call: remember what to run and where to return to
CallFfmpeg(t, stage, input, output, ret) ==
  run' = [run EXCEPT ![t].pc = "ff_start", ![t].stage = stage, ![t].ff_in = input,
                     ![t].ff_out = output, ![t].ret = ret,
                     ![t].encodes = IF stage = "processing" THEN @ + 1 ELSE @]

\* return (success, error): the function's own locals are dead from here on
Returned(r, success) == [r EXCEPT !.pc = r.ret, !.success = success, !.ret = "",
                                  !.stage = "", !.ff_in = {}, !.ff_out = "",
                                  !.since_ping = 0]

\* subprocess.Popen: the child runs from here on; Popen itself may raise, which the
\* function turns into (False, str(e))
FfStart(t) ==
  /\ run[t].pc = "ff_start"
  /\ \/ /\ proc' = [proc EXCEPT ![t] = "running"]
        /\ files' = [files EXCEPT ![t] =
                       IF run[t].ff_in \subseteq DOMAIN @
                       THEN WriteFile(@, run[t].ff_out, TinySize) ELSE @]
        /\ run' = [run EXCEPT ![t].pc = "ff_register"]
        /\ UNCHANGED active_processes
     \/ /\ run' = [run EXCEPT ![t] = Returned(@, FALSE)]
        /\ active_processes' = active_processes \ {t}
        /\ UNCHANGED <<proc, files>>
  /\ UNCHANGED <<conversion_progress, active_downloads, other_runs, opts, dl, removals, timing, locking, video_info_cache, info_calls>>
  /\ aged' = [aged EXCEPT ![t] = StillAged(@, files'[t], IF run'[t].pc = "ff_register" /\ run[t].ff_in \subseteq DOMAIN files[t]
                                     THEN {run[t].ff_out} ELSE {})]

\* with process_lock: active_processes[task_id] = process
FfRegister(t) ==
  /\ run[t].pc = "ff_register"
  /\ active_processes' = active_processes \cup {t}
  /\ run' = [run EXCEPT ![t].pc = "ff_loop", ![t].since_ping = 0]
  /\ UNCHANGED <<conversion_progress, active_downloads, other_runs, proc, files, opts,
                 dl, removals, aged, timing, locking, video_info_cache, info_calls>>

\* the child process ends by itself: exit code 0 with its output written, or non-zero
ProcExit(t) ==
  /\ proc[t] = "running"
  /\ \/ /\ run[t].ff_in \subseteq DOMAIN files[t]
        /\ proc' = [proc EXCEPT ![t] = "exit0"]
        /\ \E size \in {TinySize, FineSize} :
             files' = [files EXCEPT ![t] = WriteFile(@, run[t].ff_out, size)]
     \/ /\ proc' = [proc EXCEPT ![t] = "exit1"]
        /\ files' = files
  /\ UNCHANGED <<conversion_progress, active_downloads, other_runs, active_processes,
                 opts, run, dl, removals,
                 timing, locking, video_info_cache, info_calls>>
  /\ aged' = [aged EXCEPT ![t] = StillAged(@, files'[t], IF proc'[t] = "exit0" THEN {run[t].ff_out} ELSE {})]

\* process.poll() is not None: unregister, return (poll == 0, stderr)
FfExited(t) ==
  /\ run[t].pc = "ff_loop"
  /\ proc[t] # "running"
  /\ active_processes' = active_processes \ {t}
  /\ run' = [run EXCEPT ![t] = Returned(@, proc[t] = "exit0")]
  /\ proc' = [proc EXCEPT ![t] = "reaped"]
  /\ UNCHANGED <<conversion_progress, active_downloads, other_runs, files, opts,
                 dl, removals,
                 aged, timing, locking, video_info_cache, info_calls>>

\* faulty variant of FfTimeout: the handle is left in the registry
FfTimeoutKeepsHandle(t) ==
  /\ run[t].pc = "ff_loop"
  /\ proc[t] = "running"
  /\ proc' = [proc EXCEPT ![t] = "reaped"]
  /\ run' = [run EXCEPT ![t] = Returned(@, FALSE)]
  /\ UNCHANGED <<conversion_progress, active_downloads, other_runs, active_processes,
                 files, opts, dl, removals, aged, timing, locking, video_info_cache, info_calls>>

\* the timeout fired while the process was running: kill, unregister, return False
FfTimeout(t) ==
  /\ run[t].pc = "ff_loop"
  /\ proc[t] = "running"
  /\ proc' = [proc EXCEPT ![t] = "reaped"]
  /\ active_processes' = active_processes \ {t}
  /\ run' = [run EXCEPT ![t] = Returned(@, FALSE)]
  /\ UNCHANGED <<conversion_progress, active_downloads, other_runs, files, opts, dl, removals, aged, timing, locking, video_info_cache, info_calls>>

\* the liveness ping of the supervision loop (lines 273-283)
PingEntry(e, stage) ==
  IF e.status = stage THEN [e EXCEPT !.age = 0, !.elapsed = TRUE]
                      ELSE [e EXCEPT !.age = 0]

FfPing(t) ==
  /\ run[t].pc = "ff_loop"
  /\ proc[t] = "running"
  /\ run[t].since_ping > PING_INTERVAL
  /\ conversion_progress' =
       IF t \in DOMAIN conversion_progress
       THEN [conversion_progress EXCEPT ![t] = PingEntry(@, run[t].stage)]
       ELSE conversion_progress
  /\ run' = [run EXCEPT ![t].since_ping = 0]
  /\ UNCHANGED <<active_downloads, other_runs, active_processes, proc, files, opts, dl, removals, aged, timing, locking, video_info_cache, info_calls>>

\* ------------------------------------------- run_conversion: audio branch
AudioExt(t) == AUDIO_FORMATS[opts[t].audio_format].extension
AudioTemp(t) == "_temp." \o AudioExt(t)
FinalAudio(t) == "." \o AudioExt(t)

\* "processing 88" update, then the transcode is started
RunAudioConvert(t) ==
  /\ run[t].pc = "a_upd88"
  /\ IF t \in DOMAIN conversion_progress
     THEN /\ conversion_progress' = [conversion_progress EXCEPT
                ![t] = StageUpdate(@, "processing", P(88), "Converting...")]
          /\ CallFfmpeg(t, "processing", {run[t].src}, AudioTemp(t), "a_conv_ret")
     ELSE /\ conversion_progress' = conversion_progress
          /\ Raise(t, "KeyError")
  /\ UNCHANGED <<active_downloads, other_runs, active_processes, proc, files, opts, dl, removals, aged, timing, locking, video_info_cache, info_calls>>

\* if not success or not os.path.exists(audio_temp): raise
RunAudioConverted(t) ==
  /\ run[t].pc = "a_conv_ret"
  /\ IF ~run[t].success \/ AudioTemp(t) \notin DOMAIN files[t]
     THEN Raise(t, "conversion failed")
     ELSE run' = [run EXCEPT ![t].pc = "a_upd92"]
  /\ UNCHANGED <<conversion_progress, active_downloads, other_runs, active_processes,
                 proc, files, opts, dl, removals,
                 aged, timing, locking, video_info_cache, info_calls>>

\* "processing 92" update inside the artwork try block: a KeyError is swallowed there
RunArtworkUpdate(t) ==
  /\ run[t].pc = "a_upd92"
  /\ IF t \in DOMAIN conversion_progress
     THEN /\ conversion_progress' = [conversion_progress EXCEPT
                ![t] = StageUpdate(@, "processing", P(92), "Downloading artwork...")]
          /\ run' = [run EXCEPT ![t].pc = "a_thumb"]
     ELSE /\ conversion_progress' = conversion_progress
          /\ run' = [run EXCEPT ![t].pc = "a_meta", ![t].thumb_ok = FALSE]
  /\ UNCHANGED <<active_downloads, other_runs, active_processes, proc, files, opts, dl, removals, aged, timing, locking, video_info_cache, info_calls>>

\* download_thumbnail: best effort
RunThumbnail(t) ==
  /\ run[t].pc = "a_thumb"
  /\ \/ /\ files' = [files EXCEPT ![t] = WriteFile(@, "_thumb.jpg", FineSize)]
        /\ run' = [run EXCEPT ![t].pc = "a_meta", ![t].thumb_ok = TRUE]
     \/ /\ files' = files
        /\ run' = [run EXCEPT ![t].pc = "a_meta", ![t].thumb_ok = FALSE]
  /\ UNCHANGED <<conversion_progress, active_downloads, other_runs, active_processes,
                 proc, opts, dl, removals,
                 timing, locking, video_info_cache, info_calls>>
  /\ aged' = [aged EXCEPT ![t] = StillAged(@, files'[t], IF run'[t].thumb_ok THEN {"_thumb.jpg"} ELSE {})]

\* with artwork: "embedding 95" update, then ffmpeg for mp3, a copy for the others;
\* without artwork: a copy
RunMetadata(t) ==
  /\ run[t].pc = "a_meta"
  /\ IF run[t].thumb_ok
     THEN IF t \in DOMAIN conversion_progress
          THEN /\ conversion_progress' = [conversion_progress EXCEPT
                     ![t] = StageUpdate(@, "embedding", P(95), "Embedding artwork...")]
               /\ IF opts[t].audio_format = "mp3"
                  THEN CallFfmpeg(t, "embedding", {AudioTemp(t), "_thumb.jpg"}, FinalAudio(t),
                                  "a_embed_ret")
                  ELSE run' = [run EXCEPT ![t].pc = "a_copy"]
          ELSE /\ conversion_progress' = conversion_progress
               /\ Raise(t, "KeyError")
     ELSE /\ conversion_progress' = conversion_progress
          /\ run' = [run EXCEPT ![t].pc = "a_copy"]
  /\ UNCHANGED <<active_downloads, other_runs, active_processes, proc, files, opts, dl, removals, aged, timing, locking, video_info_cache, info_calls>>

\* embed_artwork_mp3_ffmpeg returned: success and the output exists, else fall back
RunEmbedded(t) ==
  /\ run[t].pc = "a_embed_ret"
  /\ run' = [run EXCEPT ![t].pc = IF run[t].success /\ FinalAudio(t) \in DOMAIN files[t]
                                  THEN "a_touch" ELSE "a_copy"]
  /\ UNCHANGED <<conversion_progress, active_downloads, other_runs, active_processes,
                 proc, files, opts, dl, removals,
                 aged, timing, locking, video_info_cache, info_calls>>

\* shutil.copy(audio_temp, final_audio) and the tag writer; the copy raises when the
\* transcoded file is gone
RunCopy(t) ==
  /\ run[t].pc = "a_copy"
  /\ IF AudioTemp(t) \in DOMAIN files[t]
     THEN /\ files' = [files EXCEPT ![t] = WriteFile(@, FinalAudio(t), @[AudioTemp(t)])]
          /\ run' = [run EXCEPT ![t].pc = "a_touch"]
     ELSE /\ files' = files
          /\ Raise(t, "FileNotFoundError")
  /\ UNCHANGED <<conversion_progress, active_downloads, other_runs, active_processes,
                 proc, opts, dl, removals,
                 timing, locking, video_info_cache, info_calls>>
  /\ aged' = [aged EXCEPT ![t] = StillAged(@, files'[t], IF AudioTemp(t) \in DOMAIN files[t] THEN {FinalAudio(t)} ELSE {})]

\* conversion_progress[task_id]['last_update'] = time.time()
TouchEntry(t, next) ==
  IF t \in DOMAIN conversion_progress
  THEN /\ conversion_progress' = [conversion_progress EXCEPT ![t].age = 0]
       /\ run' = [run EXCEPT ![t].pc = next]
  ELSE /\ conversion_progress' = conversion_progress
       /\ Raise(t, "KeyError")

RunAudioTouch(t) ==
  /\ run[t].pc = "a_touch"
  /\ TouchEntry(t, "a_cleanup")
  /\ UNCHANGED <<active_downloads, other_runs, active_processes, proc, files, opts, dl, removals, aged, timing, locking, video_info_cache, info_calls>>

\* faulty variant of RunAudioCleanup: the temp thumbnail is left behind
RunAudioCleanupKeepsThumbnail(t) ==
  /\ run[t].pc = "a_cleanup"
  /\ LET f1 == RemoveFile(files[t], AudioTemp(t))
     IN files' = [files EXCEPT
                    ![t] = IF run[t].src # FinalAudio(t) THEN RemoveFile(f1, run[t].src) ELSE f1]
  /\ run' = [run EXCEPT ![t].pc = "verify", ![t].out = FinalAudio(t)]
  /\ UNCHANGED <<conversion_progress, active_downloads, other_runs, active_processes,
                 proc, opts, dl, removals,
                 timing, locking, video_info_cache, info_calls>>
  /\ aged' = [aged EXCEPT ![t] = StillAged(@, files'[t], {})]

\* the temporaries go: the transcode temp, the fetched file unless it is the output,
\* the thumbnail
RunAudioCleanup(t) ==
  /\ run[t].pc = "a_cleanup"
  /\ LET f1 == RemoveFile(files[t], AudioTemp(t))
         f2 == IF run[t].src # FinalAudio(t) THEN RemoveFile(f1, run[t].src) ELSE f1
     IN files' = [files EXCEPT ![t] = RemoveFile(f2, "_thumb.jpg")]
  /\ run' = [run EXCEPT ![t].pc = "verify", ![t].out = FinalAudio(t)]
  /\ UNCHANGED <<conversion_progress, active_downloads, other_runs, active_processes,
                 proc, opts, dl, removals,
                 timing, locking, video_info_cache, info_calls>>
  /\ aged' = [aged EXCEPT ![t] = StillAged(@, files'[t], {})]

\* ------------------------------------------- run_conversion: video branch
\* temp_mp4: beside the fetched file when that already has the wanted name
TempMp4(src) == IF src = ".mp4" THEN "__enc.mp4" ELSE ".mp4"

\* faulty variant of RunVideoBranch: the Encoder is run whatever the quality and the
\* container
RunVideoBranchAlwaysEncode(t) ==
  /\ run[t].pc = "v_branch"
  /\ IF t \notin DOMAIN conversion_progress
     THEN /\ conversion_progress' = conversion_progress
          /\ Raise(t, "KeyError")
     ELSE /\ conversion_progress' = [conversion_progress EXCEPT
                ![t] = StageUpdate(@, "processing", P(88), "Converting video...")]
          /\ run' = [run EXCEPT ![t].pc = "ff_start", ![t].stage = "processing",
                        ![t].ff_in = {run[t].src}, ![t].ff_out = TempMp4(run[t].src),
                        ![t].ret = "v_enc_ret", ![t].tmp = TempMp4(run[t].src),
                        ![t].encodes = @ + 1]
  /\ UNCHANGED <<active_downloads, other_runs, active_processes, proc, files, opts, dl, removals, aged, timing, locking, video_info_cache, info_calls>>

\* quality "best": an MP4 is used as it is ("processing 95" update), WebM/MKV is
\* remuxed; everything else is re-encoded ("processing 88" update)
RunVideoBranch(t) ==
  /\ run[t].pc = "v_branch"
  /\ IF t \notin DOMAIN conversion_progress
     THEN /\ conversion_progress' = conversion_progress
          /\ Raise(t, "KeyError")
     ELSE IF opts[t].quality = "best" /\ run[t].src = ".mp4"
     THEN /\ conversion_progress' = [conversion_progress EXCEPT
                ![t] = StageUpdate(@, "processing", P(95), "Video ready...")]
          /\ run' = [run EXCEPT ![t].pc = "verify", ![t].out = run[t].src]
     ELSE /\ conversion_progress' = [conversion_progress EXCEPT
                ![t] = StageUpdate(@, "processing", P(88), "Converting video...")]
          /\ run' = [run EXCEPT ![t].pc = "ff_start", ![t].stage = "processing",
                        ![t].ff_in = {run[t].src}, ![t].ff_out = TempMp4(run[t].src),
                        ![t].ret = "v_enc_ret", ![t].tmp = TempMp4(run[t].src),
                        ![t].encodes = @ + 1,
                        ![t].needs_full = ~(opts[t].quality = "best" /\
                                            run[t].src \in {".webm", ".mkv"})]
  /\ UNCHANGED <<active_downloads, other_runs, active_processes, proc, files, opts, dl, removals, aged, timing, locking, video_info_cache, info_calls>>

\* the first Encoder run returned: a failed remux falls back to a full re-encode
\* ("processing 89" update), any other failure is raised
RunVideoEncoded(t) ==
  /\ run[t].pc = "v_enc_ret"
  /\ IF run[t].success /\ run[t].tmp \in DOMAIN files[t]
     THEN /\ run' = [run EXCEPT ![t].pc = "v_rename"]
          /\ conversion_progress' = conversion_progress
     ELSE IF run[t].needs_full
     THEN /\ Raise(t, "ffmpeg error")
          /\ conversion_progress' = conversion_progress
     ELSE IF t \in DOMAIN conversion_progress
     THEN /\ conversion_progress' = [conversion_progress EXCEPT
                ![t] = StageUpdate(@, "processing", P(89), "Remux failed...")]
          /\ CallFfmpeg(t, "processing", {run[t].src}, run[t].tmp, "v_enc2_ret")
     ELSE /\ conversion_progress' = conversion_progress
          /\ Raise(t, "KeyError")
  /\ UNCHANGED <<active_downloads, other_runs, active_processes, proc, files, opts, dl, removals, aged, timing, locking, video_info_cache, info_calls>>

\* the fallback re-encode returned
RunVideoReencoded(t) ==
  /\ run[t].pc = "v_enc2_ret"
  /\ IF run[t].success /\ run[t].tmp \in DOMAIN files[t]
     THEN run' = [run EXCEPT ![t].pc = "v_rename"]
     ELSE Raise(t, "ffmpeg error")
  /\ UNCHANGED <<conversion_progress, active_downloads, other_runs, active_processes,
                 proc, files, opts, dl, removals,
                 aged, timing, locking, video_info_cache, info_calls>>

\* temp_mp4 becomes <id>.mp4 (os.rename raises when temp_mp4 is gone)
RunVideoRename(t) ==
  /\ run[t].pc = "v_rename"
  /\ IF run[t].tmp = ".mp4"
     THEN /\ files' = files
          /\ run' = [run EXCEPT ![t].pc = "v_touch", ![t].out = ".mp4"]
     ELSE IF run[t].tmp \in DOMAIN files[t]
     THEN /\ files' = [files EXCEPT
                         ![t] = RemoveFile(WriteFile(@, ".mp4", @[run[t].tmp]), run[t].tmp)]
          /\ run' = [run EXCEPT ![t].pc = "v_touch", ![t].out = ".mp4"]
     ELSE /\ files' = [files EXCEPT ![t] = RemoveFile(@, ".mp4")]
          /\ Raise(t, "FileNotFoundError")
  /\ UNCHANGED <<conversion_progress, active_downloads, other_runs, active_processes,
                 proc, opts, dl, removals,
                 timing, locking, video_info_cache, info_calls>>
  \* os.rename keeps the modification time of the renamed file
  /\ aged' = [aged EXCEPT ![t] =
                IF run[t].tmp # ".mp4" /\ run[t].tmp \in @
                THEN StillAged(@, files'[t], {}) \cup {".mp4"}
                ELSE StillAged(@, files'[t], IF run[t].tmp = ".mp4" THEN {} ELSE {".mp4"})]

RunVideoTouch(t) ==
  /\ run[t].pc = "v_touch"
  /\ TouchEntry(t, "v_rmsrc")
  /\ UNCHANGED <<active_downloads, other_runs, active_processes, proc, files, opts, dl, removals, aged, timing, locking, video_info_cache, info_calls>>

\* the fetched file goes unless it is the output
RunVideoRemoveOriginal(t) ==
  /\ run[t].pc = "v_rmsrc"
  /\ files' = [files EXCEPT ![t] = IF run[t].src # run[t].out
                                   THEN RemoveFile(@, run[t].src) ELSE @]
  /\ run' = [run EXCEPT ![t].pc = "verify"]
  /\ UNCHANGED <<conversion_progress, active_downloads, other_runs, active_processes,
                 proc, opts, dl, removals,
                 timing, locking, video_info_cache, info_calls>>
  /\ aged' = [aged EXCEPT ![t] = StillAged(@, files'[t], {})]

\* ----------------------------------- run_conversion: verify, complete, fail
\* faulty variant of RunVerify: the size of the output is not tested
RunVerifyAnySize(t) ==
  /\ run[t].pc = "verify"
  /\ IF run[t].out \notin DOMAIN files[t]
     THEN Raise(t, "Final output file not found")
     ELSE run' = [run EXCEPT ![t].pc = "complete",
                             ![t].final_size = files[t][run[t].out]]
  /\ UNCHANGED <<conversion_progress, active_downloads, other_runs, active_processes,
                 proc, files, opts, dl, removals,
                 aged, timing, locking, video_info_cache, info_calls>>

\* the output must exist and have a plausible size
RunVerify(t) ==
  /\ run[t].pc = "verify"
  /\ IF run[t].out \notin DOMAIN files[t]
     THEN Raise(t, "Final output file not found")
     ELSE IF files[t][run[t].out] < MIN_OUTPUT_SIZE
     THEN Raise(t, "Output file is too small")
     ELSE run' = [run EXCEPT ![t].pc = "complete",
                             ![t].final_size = files[t][run[t].out]]
  /\ UNCHANGED <<conversion_progress, active_downloads, other_runs, active_processes,
                 proc, files, opts, dl, removals,
                 aged, timing, locking, video_info_cache, info_calls>>

\* the entry is replaced by the completed record (the size is the one the verify step
\* read)
CompletedEntry(t) ==
  [NewEntry("completed", P(100), "Ready!") EXCEPT
     !.filename = run[t].out, !.file_size = run[t].final_size, !.format = opts[t].format,
     !.has_thumbnail = (opts[t].format = "audio" /\ run[t].thumb_ok)]

RunComplete(t) ==
  /\ run[t].pc = "complete"
  /\ conversion_progress' = Put(conversion_progress, t, CompletedEntry(t))
  /\ run' = [run EXCEPT ![t].pc = "finally"]
  /\ UNCHANGED <<active_downloads, other_runs, active_processes, proc, files, opts, dl, removals, aged, timing, locking, video_info_cache, info_calls>>

\* except Exception, first part: kill any process still registered for the task
RunExceptKill(t) ==
  /\ run[t].pc = "except"
  /\ proc' = [proc EXCEPT ![t] = IF t \in active_processes THEN Killed(@) ELSE @]
  /\ active_processes' = active_processes \ {t}
  /\ run' = [run EXCEPT ![t].pc = "except_write"]
  /\ UNCHANGED <<conversion_progress, active_downloads, other_runs, files, opts, dl, removals, aged, timing, locking, video_info_cache, info_calls>>

\* except Exception, second part: the entry is replaced by the error record
\* err = str(e)[:300]
Truncate(text) == IF Len(text) > ERR_LIMIT THEN SubSeq(text, 1, ERR_LIMIT) ELSE text

ErrorEntry(err) == NewEntry("error", 0, "Error: " \o Truncate(err))

RunExceptWrite(t) ==
  /\ run[t].pc = "except_write"
  /\ conversion_progress' = Put(conversion_progress, t, ErrorEntry(run[t].err))
  /\ run' = [run EXCEPT ![t].pc = "except_cleanup", ![t].err = ""]
  /\ UNCHANGED <<active_downloads, other_runs, active_processes, proc, files, opts, dl, removals, aged, timing, locking, video_info_cache, info_calls>>

\* except Exception, third part: every task-prefixed file is deleted
RunExceptCleanup(t) ==
  /\ run[t].pc = "except_cleanup"
  /\ files' = [files EXCEPT ![t] = CleanupFiles(@)]
  /\ run' = [run EXCEPT ![t].pc = "finally"]
  /\ UNCHANGED <<conversion_progress, active_downloads, other_runs, active_processes,
                 proc, opts, dl, removals,
                 timing, locking, video_info_cache, info_calls>>
  /\ aged' = [aged EXCEPT ![t] = StillAged(@, files'[t], {})]

\* faulty variant of ReleaseIf: the permit is given back whether or not it was taken
ReleaseAlways(acquired, value) == value + 1

\* finally: if acquired: active_downloads.release()
ReleaseIf(acquired, value) == IF acquired THEN value + 1 ELSE value

RunFinally(t) ==
  /\ run[t].pc = "finally"
  /\ active_downloads' = ReleaseIf(run[t].acquired, active_downloads)
  /\ run' = [run EXCEPT ![t] = [NoRun EXCEPT
                 !.pc = "done", !.acquired = run[t].acquired,
                 !.released = IF active_downloads' # active_downloads
                              THEN run[t].released + 1 ELSE run[t].released]]
  /\ UNCHANGED <<conversion_progress, other_runs, active_processes, proc, files, opts,
                 dl, removals,
                 aged, timing, locking, video_info_cache, info_calls>>

\* ------------------------------------------------------------------ Cancel
CancelProcesses(ap, t) == ap \ {t}
CancelProc(p, ap, t) == [p EXCEPT ![t] = IF t \in ap THEN Killed(@) ELSE @]
CancelledEntry == NewEntry("cancelled", 0, "Download cancelled by user")
CancelProgress(cp, t) == IF t \in DOMAIN cp THEN Put(cp, t, CancelledEntry) ELSE cp
CancelFiles(fs, t) == [fs EXCEPT ![t] = CleanupFiles(@)]

\* cancel_download: kill the registered process, overwrite the entry, delete the files
cancel_download(t) ==
  /\ proc' = CancelProc(proc, active_processes, t)
  /\ active_processes' = CancelProcesses(active_processes, t)
  /\ conversion_progress' = CancelProgress(conversion_progress, t)
  /\ files' = CancelFiles(files, t)
  /\ UNCHANGED <<active_downloads, other_runs, opts, run, dl, removals, timing, locking, video_info_cache, info_calls>>
  /\ aged' = [aged EXCEPT ![t] = StillAged(@, files'[t], {})]

\* ------------------------------------------------------------ StallMonitor
\* faulty variant of StallThreshold: the longer timeout is applied to every status
StallThresholdLax(status) == PROCESSING_STALL_TIMEOUT

StallThreshold(status) ==
  IF status = "downloading" THEN STALL_TIMEOUT
  ELSE IF status \in {"processing", "embedding"} THEN PROCESSING_STALL_TIMEOUT
  ELSE STALL_TIMEOUT

\* faulty variant of SkippedByMonitor: the scan also passes over connecting tasks
SkippedByMonitorAndConnecting == {"completed", "error", "cancelled", "unknown", "connecting"}

\* the statuses the scan passes over
SkippedByMonitor == {"completed", "error", "cancelled", "unknown"}

\* faulty variant of IsStalled: an idle time equal to the threshold already counts
IsStalledAtThreshold(e) ==
  e.status \notin SkippedByMonitor /\ e.age >= StallThreshold(e.status)

\* the scan's test on one entry
IsStalled(e) == e.status \notin SkippedByMonitor /\ e.age > StallThreshold(e.status)

StalledEntry(e) == [NewEntry("error", e.percent, "Process stalled. Please try again.")
                      EXCEPT !.age = 0]

\* seconds go by: the age of every timestamp that is still read grows
Older(cp, d) == [t \in DOMAIN cp |->
                   IF cp[t].status \in SkippedByMonitor THEN cp[t]
                   ELSE [cp[t] EXCEPT !.age = @ + d]]

\* a thread that is not waiting for anything outside the program does not let time pass
Blocked(t) ==
  CASE run[t].pc \in {"unsubmitted", "done", "preinfo", "a_thumb"} -> TRUE
    [] run[t].pc = "acquire" -> active_downloads = 0 /\ run[t].waited < ACQUIRE_TIMEOUT
    [] run[t].pc = "wait_dl" -> dl[t].st = "running"
    [] run[t].pc = "ff_loop" -> proc[t] = "running" /\ run[t].since_ping <= PING_INTERVAL
    [] OTHER -> FALSE

TimeCanPass ==
  \A t \in Tasks : Blocked(t) /\ \A a \in removals[t] : a < REMOVAL_DELAY

\* one iteration of check_stalled_downloads: sleep(15), then the scan under the lock
check_stalled_downloads ==
  /\ TimeCanPass
  /\ LET cp == Older(conversion_progress, SCAN_INTERVAL)
         stalled == {t \in DOMAIN cp : IsStalled(cp[t])}
     IN /\ conversion_progress' =
             [t \in DOMAIN cp |-> IF t \in stalled THEN StalledEntry(cp[t]) ELSE cp[t]]
        /\ proc' = [t \in Tasks |->
                      IF t \in stalled /\ t \in active_processes
                      THEN Killed(proc[t]) ELSE proc[t]]
        /\ active_processes' = active_processes \ stalled
        /\ files' = [t \in Tasks |->
                       IF t \in stalled THEN CleanupFiles(files[t]) ELSE files[t]]
  /\ run' = [t \in Tasks |->
               IF run[t].pc = "acquire" THEN [run[t] EXCEPT !.waited = @ + SCAN_INTERVAL]
               ELSE IF run[t].pc = "ff_loop"
               THEN [run[t] EXCEPT !.since_ping = @ + SCAN_INTERVAL]
               ELSE run[t]]
  /\ removals' = [t \in Tasks |-> {a + SCAN_INTERVAL : a \in removals[t]}]
  /\ UNCHANGED <<active_downloads, other_runs, opts, dl, timing, locking, video_info_cache, info_calls>>
  /\ aged' = [t \in Tasks |-> StillAged(aged[t], files'[t], {})]

\* -------------------------------------------------------------------- Poll
\* ids a client may ask about: the task's own id and an id that was never issued
PollIds == Tasks \cup {"t0"}

\* the default of conversion_progress.get(task_id, {...})
UnknownProgress == [status |-> "unknown", percent |-> 0, message |-> "Task not found"]

\* prog.pop('last_update'), prog.pop('last_message_update') on the copy
Public(e) == [status |-> e.status, percent |-> e.percent, message |-> e.message,
              elapsed |-> e.elapsed, filename |-> e.filename, file_size |-> e.file_size,
              format |-> e.format, has_thumbnail |-> e.has_thumbnail]

\* faulty variant of ProgressResponse: an id that is not stored is answered like a
\* task that was just submitted
ProgressResponseAsNew(cp, id) ==
  Public(IF id \in DOMAIN cp THEN cp[id]
         ELSE NewEntry("initializing", P(1), "Preparing download..."))

\* the body of the response of get_progress
ProgressResponse(cp, id) ==
  IF id \in DOMAIN cp THEN Public(cp[id]) ELSE UnknownProgress

\* get_progress: reads the entry under the lock, works on a copy, writes nothing
get_progress(id) ==
  /\ ProgressResponse(conversion_progress, id).status \in
       Terminal \cup {"unknown", "initializing", "connecting", "starting", "downloading",
                      "processing", "embedding"}
  /\ UNCHANGED vars

\* ------------------------------------------------------------- FetchResult
PreferredExts(is_video) == IF is_video THEN <<".mp4">>
                                       ELSE <<".mp3", ".m4a", ".opus", ".ogg">>

\* os.path.splitext(name)[1].lower()
SplitExt(name) ==
  CASE name \in {".mp3", "_temp.mp3"} -> ".mp3"
    [] name \in {".m4a", "_temp.m4a"} -> ".m4a"
    [] name \in {".opus", "_temp.opus"} -> ".opus"
    [] name \in {".ogg", "_temp.ogg"} -> ".ogg"
    [] name \in {".mp4", "__enc.mp4"} -> ".mp4"
    [] name = ".webm" -> ".webm"
    [] name = ".part" -> ".part"
    [] OTHER -> ""

MimeType(ext) ==
  CASE ext = ".mp3" -> "audio/mpeg"
    [] ext = ".m4a" -> "audio/mp4"
    [] ext = ".opus" -> "audio/opus"
    [] ext = ".ogg" -> "audio/ogg"
    [] ext = ".mp4" -> "video/mp4"
    [] ext = ".webm" -> "video/webm"
    [] OTHER -> "application/octet-stream"

\* the files download_file may settle on
FoundFiles(fs, is_video) ==
  LET pref == PreferredExts(is_video)
      hits == {i \in 1..Len(pref) : pref[i] \in DOMAIN fs}
  IN IF hits # {}
     THEN {pref[CHOOSE i \in hits : \A j \in hits : i <= j]}
     ELSE {n \in DownloadFolder(fs) : is_video => SplitExt(n) = ".mp4"}

\* the response of download_file: 404, or the file with its MIME type
Response(f) == [code |-> 200, name |-> f, mime |-> MimeType(SplitExt(f))]
NotFound == [code |-> 404, name |-> "", mime |-> ""]
IsVideo(cp, t) == t \in DOMAIN cp /\ cp[t].format = "video"
FetchResult(cp, fs, t) ==
  LET found == FoundFiles(fs[t], IsVideo(cp, t))
  IN IF found = {} THEN {NotFound} ELSE {Response(f) : f \in found}

\* download_file: a served artifact schedules the entry's removal; a 404 changes
\* nothing
download_file(t) ==
  /\ Cardinality(removals[t]) < MaxPendingRemovals
  /\ \E r \in FetchResult(conversion_progress, files, t) :
       /\ r.code = 200
       /\ removals' = [removals EXCEPT ![t] = @ \cup {0}]
  /\ UNCHANGED <<conversion_progress, active_downloads, other_runs, active_processes,
                 proc, files, opts, run, dl,
                 aged, timing, locking, video_info_cache, info_calls>>

\* the deferred thread of download_file: sleep(30), then pop the entry
delayed(t) ==
  /\ \E a \in removals[t] :
       /\ a >= REMOVAL_DELAY
       /\ removals' = [removals EXCEPT ![t] = @ \ {a}]
  /\ conversion_progress' = Pop(conversion_progress, t)
  /\ UNCHANGED <<active_downloads, other_runs, active_processes, proc, files, opts,
                 run, dl,
                 aged, timing, locking, video_info_cache, info_calls>>

\* ----------------------------------------------------------------- Janitor
\* time goes by while every thread waits: the modification time of one more file is
\* now more than CLEANUP_AGE in the past
FilesAge(t) ==
  /\ TimeCanPass
  /\ \E n \in DOMAIN files[t] \ aged[t] : aged' = [aged EXCEPT ![t] = @ \cup {n}]
  /\ UNCHANGED <<conversion_progress, active_downloads, other_runs, active_processes,
                 proc, files, opts, run, dl, removals, timing, locking, video_info_cache, info_calls>>

\* the names a task's files can have, without the task id they start with
FileNames == {".part", "_thumb.jpg", "__enc.mp4"}
               \cup {"." \o e : e \in SrcExts}
               \cup {"." \o AUDIO_FORMATS[f].extension : f \in DOMAIN AUDIO_FORMATS}
               \cup {"_temp." \o AUDIO_FORMATS[f].extension : f \in DOMAIN AUDIO_FORMATS}

\* filename.split('.')[0].split('_')[0]: a task id is a UUID, without '.' and '_', and
\* every name the program gives a file is the id followed by '.' or '_'
FileTask(t, name) == t

\* faulty variant of JanitorProtected: a task in processing is not protected
JanitorProtectedWithoutProcessing ==
  {"downloading", "embedding", "connecting", "starting"}

\* the statuses cleanup_old_files does not touch
JanitorProtected == {"downloading", "processing", "embedding", "connecting", "starting"}

\* task_info.get('status') of conversion_progress.get(task_id, {})
JanitorStatus(cp, id) == IF id \in DOMAIN cp THEN cp[id].status ELSE "None"

\* cleanup_old_files, for one file of the listing: an old file of a task that is not
\* protected is removed
cleanup_old_files(t, n) ==
  /\ n \in DOMAIN files[t]
  /\ IF n \in aged[t]
        /\ JanitorStatus(conversion_progress, FileTask(t, n)) \notin JanitorProtected
     THEN /\ files' = [files EXCEPT ![t] = RemoveFile(@, n)]
          /\ aged' = [aged EXCEPT ![t] = @ \ {n}]
     ELSE UNCHANGED <<files, aged>>
  /\ UNCHANGED <<conversion_progress, active_downloads, other_runs, active_processes,
                 proc, opts, run, dl, removals, timing, locking, video_info_cache, info_calls>>

\* ------------------------------------------------- timeouts of a pipeline run
Min(a, b) == IF a <= b THEN a ELSE b
Durations == (0..MaxDuration) \cup {HugeDuration}

\* faulty variant of calculate_timeout: no extra time for videos longer than an hour
CalculateTimeoutNoExtra(duration) ==
  IF duration = 0 THEN DOWNLOAD_TIMEOUT
  ELSE Min(600 + (duration \div 600) * 120, 7200)

\* faulty variant of calculate_timeout: the extra time counts from the first second
CalculateTimeoutExtraFromZero(duration) ==
  IF duration = 0 THEN DOWNLOAD_TIMEOUT
  ELSE Min(600 + (duration \div 600) * 120
               + (IF duration > 3600 THEN (duration \div 600) * 60 ELSE 0), 7200)

\* calculate_timeout(duration): "not duration" is true for 0 and for None
calculate_timeout(duration) ==
  IF duration = 0 THEN DOWNLOAD_TIMEOUT
  ELSE LET base_timeout == 600
           duration_factor == (duration \div 600) * 120
           extra_time == IF duration > 3600 THEN ((duration - 3600) \div 600) * 60 ELSE 0
           total_timeout == base_timeout + duration_factor + extra_time
       IN Min(total_timeout, 7200)

\* faulty variant of calculate_ffmpeg_timeout: 30 seconds per ten minutes of video
CalculateFfmpegTimeoutPerTen(duration) ==
  IF duration = 0 THEN FFMPEG_TIMEOUT
  ELSE Min(300 + (duration \div 600) * 30, 7200)

\* faulty variant of calculate_ffmpeg_timeout: no cap
CalculateFfmpegTimeoutUncapped(duration) ==
  IF duration = 0 THEN FFMPEG_TIMEOUT
  ELSE 300 + (duration \div 60) * 30

\* calculate_ffmpeg_timeout(duration)
calculate_ffmpeg_timeout(duration) ==
  IF duration = 0 THEN FFMPEG_TIMEOUT
  ELSE LET base_timeout == 300
           duration_factor == (duration \div 60) * 30
           total_timeout == base_timeout + duration_factor
       IN Min(total_timeout, 7200)

\* a run_conversion about to ask for the video's duration
InitTimeouts ==
  /\ conversion_progress = [t \in {} |-> 0]
  /\ active_downloads = MAX_CONCURRENT_DOWNLOADS
  /\ other_runs = 0
  /\ active_processes = {}
  /\ proc = [t \in Tasks |-> "none"]
  /\ files = [t \in Tasks |-> NoFiles]
  /\ opts = [t \in Tasks |-> NoOpts]
  /\ run = [t \in Tasks |-> NoRun]
  /\ dl = [t \in Tasks |-> NoDl]
  /\ removals = [t \in Tasks |-> {}]
  /\ aged = [t \in Tasks |-> {}]
  /\ \E d \in Durations : timing = [NoTiming EXCEPT !.pc = "start", !.duration = d]
  /\ locking = NoLocking
  /\ video_info_cache = <<>>
  /\ info_calls = NoInfoCalls

\* pre_info.get('duration', 0); if the extraction raises, one hour is assumed
PreInfoDuration ==
  /\ timing.pc = "start"
  /\ \/ timing' = [timing EXCEPT !.pc = "measured", !.video_duration = timing.duration]
     \/ timing' = [timing EXCEPT !.pc = "measured", !.video_duration = 3600]
  /\ UNCHANGED <<conversion_progress, active_downloads, other_runs, active_processes,
                 proc, files, opts, run, dl, removals, aged, locking, video_info_cache, info_calls>>

\* download_timeout = calculate_timeout(video_duration);
\* ffmpeg_timeout = calculate_ffmpeg_timeout(video_duration)
CalculateTimeouts ==
  /\ timing.pc = "measured"
  /\ timing' = [timing EXCEPT !.pc = "calculated",
                  !.download_timeout = calculate_timeout(timing.video_duration),
                  !.ffmpeg_timeout = calculate_ffmpeg_timeout(timing.video_duration)]
  /\ UNCHANGED <<conversion_progress, active_downloads, other_runs, active_processes,
                 proc, files, opts, run, dl, removals, aged, locking, video_info_cache, info_calls>>

\* download_completed.wait(timeout=download_timeout)
WaitDownload ==
  /\ timing.pc = "calculated"
  /\ timing' = [timing EXCEPT !.pc = "fetched", !.passed = timing.download_timeout]
  /\ UNCHANGED <<conversion_progress, active_downloads, other_runs, active_processes,
                 proc, files, opts, run, dl, removals, aged, locking, video_info_cache, info_calls>>

\* run_ffmpeg_with_progress(cmd, task_id, timeout=ffmpeg_timeout): the audio transcode
\* and the full video encode
EncodeTimeout ==
  /\ timing.pc = "fetched"
  /\ timing' = [timing EXCEPT !.pc = "encoded", !.passed = timing.ffmpeg_timeout]
  /\ UNCHANGED <<conversion_progress, active_downloads, other_runs, active_processes,
                 proc, files, opts, run, dl, removals, aged, locking, video_info_cache, info_calls>>

\* embed_artwork_mp3_ffmpeg: run_ffmpeg_with_progress(..., timeout=120)
EmbedTimeout ==
  /\ timing.pc = "encoded"
  /\ timing' = [timing EXCEPT !.pc = "ended", !.passed = 120]
  /\ UNCHANGED <<conversion_progress, active_downloads, other_runs, active_processes,
                 proc, files, opts, run, dl, removals, aged, locking, video_info_cache, info_calls>>

\* the remux: ffmpeg_timeout = min(ffmpeg_timeout, 300)
RemuxTimeout ==
  /\ timing.pc = "fetched"
  /\ timing' = [timing EXCEPT !.pc = "remuxed",
                  !.ffmpeg_timeout = Min(timing.ffmpeg_timeout, 300),
                  !.passed = Min(timing.ffmpeg_timeout, 300)]
  /\ UNCHANGED <<conversion_progress, active_downloads, other_runs, active_processes,
                 proc, files, opts, run, dl, removals, aged, locking, video_info_cache, info_calls>>

\* the re-encode after a failed remux:
\* ffmpeg_timeout = calculate_ffmpeg_timeout(video_duration)
FallbackTimeout ==
  /\ timing.pc = "remuxed"
  /\ timing' = [timing EXCEPT !.pc = "ended",
                  !.ffmpeg_timeout = calculate_ffmpeg_timeout(timing.video_duration),
                  !.passed = calculate_ffmpeg_timeout(timing.video_duration)]
  /\ UNCHANGED <<conversion_progress, active_downloads, other_runs, active_processes,
                 proc, files, opts, run, dl, removals, aged, locking, video_info_cache, info_calls>>

NextTimeouts ==
  \/ PreInfoDuration \/ CalculateTimeouts \/ WaitDownload
  \/ EncodeTimeout \/ EmbedTimeout \/ RemuxTimeout \/ FallbackTimeout

\* ------------------------------------------------------------ the program
\* well-formed requests for a supported platform and a supported format
SubmitOptions ==
  {Request(WatchUrl(Str.id), "audio", a, "best") : a \in AudioFormatIds}
  \cup {Request(WatchUrl(Str.id), "video", "mp3", q) : q \in Qualities}

\* one step of the task's pipeline run, of its download thread or of its child process
PipelineStep(t) ==
  \/ Acquire(t)
  \/ RunConnecting(t) \/ RunPreInfo(t) \/ RunStarting(t) \/ RunSpawnDownload(t)
  \/ DlProgress(t) \/ DlStreamFinished(t) \/ DlReturn(t) \/ DlFail(t)
  \/ RunDownloadTimeout(t) \/ RunDownloadDone(t) \/ RunLocating(t) \/ RunLocate(t)
  \/ FfStart(t) \/ FfRegister(t) \/ ProcExit(t) \/ FfExited(t) \/ FfTimeout(t)
  \/ FfPing(t)
  \/ RunAudioConvert(t) \/ RunAudioConverted(t) \/ RunArtworkUpdate(t)
  \/ RunThumbnail(t) \/ RunMetadata(t) \/ RunEmbedded(t) \/ RunCopy(t)
  \/ RunAudioTouch(t) \/ RunAudioCleanup(t)
  \/ RunVideoBranch(t) \/ RunVideoEncoded(t) \/ RunVideoReencoded(t)
  \/ RunVideoRename(t) \/ RunVideoTouch(t) \/ RunVideoRemoveOriginal(t)
  \/ RunVerify(t) \/ RunComplete(t)
  \/ RunExceptKill(t) \/ RunExceptWrite(t) \/ RunExceptCleanup(t) \/ RunFinally(t)

Submit == \E t \in Tasks, o \in SubmitOptions : convert_media(t, o)

\* the program with well-formed requests, contention for permits, Cancel, Poll and
\* FetchResult; no file stays long enough for the Janitor (SpecJanitor has it)
Next ==
  \/ Submit
  \/ check_stalled_downloads
  \/ OtherAcquire
  \/ OtherRelease
  \/ \E t \in Tasks :
       \/ PipelineStep(t) \/ AcquireTimeout(t)
       \/ cancel_download(t) \/ download_file(t) \/ delayed(t)
  \/ \E id \in PollIds : get_progress(id)

Spec == Init /\ [][Next]_vars

\* the program while no other task asks for a permit (the gate is never contended)
NextTask ==
  \/ Submit
  \/ check_stalled_downloads
  \/ \E t \in Tasks :
       \/ PipelineStep(t)
       \/ cancel_download(t) \/ download_file(t) \/ delayed(t)
  \/ \E id \in PollIds : get_progress(id)

SpecTask == Init /\ [][NextTask]_vars

\* every request Submit is tried with: any URL of Urls, output kinds and audio formats
\* inside and outside the catalog. A field the handler does not read for the kind
\* asked for keeps its default.
OutputKinds == {"audio", "video", "gif"}
AudioFormatNames == {"mp3", "aac", "flac"}
AllRequests ==
  {Request(u, "audio", a, "best") : u \in Urls, a \in AudioFormatNames}
  \cup {Request(u, f, "mp3", q) : u \in Urls, f \in OutputKinds \ {"audio"}, q \in Qualities}

SubmitAny == \E t \in Tasks, data \in AllRequests : convert_media(t, data)

\* the single-task program with Submit open to every request
NextSubmit ==
  \/ SubmitAny
  \/ check_stalled_downloads
  \/ \E t \in Tasks :
       \/ PipelineStep(t)
       \/ cancel_download(t) \/ download_file(t) \/ delayed(t)
  \/ \E id \in PollIds : get_progress(id)

SpecSubmit == Init /\ [][NextSubmit]_vars

\* the steps the run's own thread takes as soon as it is scheduled: everything except
\* the return of the metadata-only call, which waits for the Fetcher without a timeout
\* (the thumbnail request is made with timeout=15)
RunThreadStep(t) ==
  \/ Acquire(t)
  \/ RunConnecting(t) \/ RunStarting(t) \/ RunSpawnDownload(t)
  \/ RunDownloadDone(t) \/ RunLocating(t) \/ RunLocate(t)
  \/ FfStart(t) \/ FfRegister(t) \/ FfExited(t) \/ FfPing(t)
  \/ RunAudioConvert(t) \/ RunAudioConverted(t) \/ RunArtworkUpdate(t)
  \/ RunThumbnail(t) \/ RunMetadata(t) \/ RunEmbedded(t) \/ RunCopy(t)
  \/ RunAudioTouch(t) \/ RunAudioCleanup(t)
  \/ RunVideoBranch(t) \/ RunVideoEncoded(t) \/ RunVideoReencoded(t)
  \/ RunVideoRename(t) \/ RunVideoTouch(t) \/ RunVideoRemoveOriginal(t)
  \/ RunVerify(t) \/ RunComplete(t)
  \/ RunExceptKill(t) \/ RunExceptWrite(t) \/ RunExceptCleanup(t) \/ RunFinally(t)

\* fair scheduling: the run's thread and the StallMonitor loop keep running, and a wait
\* with a timeout ends when the work it waits for does not. Nothing is assumed about
\* the Fetcher, the child process or the client.
Fairness ==
  /\ WF_vars(check_stalled_downloads)
  /\ \A t \in Tasks :
       /\ WF_vars(RunThreadStep(t))
       /\ WF_vars(RunDownloadTimeout(t))
       /\ WF_vars(FfTimeout(t))

SpecFair == Init /\ [][NextTask]_vars /\ Fairness

\* the program under contention for permits, while nobody calls FetchResult
NextGate ==
  \/ Submit
  \/ check_stalled_downloads
  \/ OtherAcquire
  \/ OtherRelease
  \/ \E t \in Tasks :
       \/ PipelineStep(t) \/ AcquireTimeout(t)
       \/ cancel_download(t)
  \/ \E id \in PollIds : get_progress(id)

SpecGate == Init /\ [][NextGate]_vars

\* the program with files that grow old and the Janitor that removes them
NextJanitor ==
  \/ Submit
  \/ check_stalled_downloads
  \/ \E t \in Tasks :
       \/ PipelineStep(t)
       \/ cancel_download(t) \/ download_file(t) \/ delayed(t)
       \/ FilesAge(t)
       \/ \E n \in FileNames : cleanup_old_files(t, n)

SpecJanitor == Init /\ [][NextJanitor]_vars

\* the timeouts one pipeline run computes and passes on, for every duration
SpecTimeouts == InitTimeouts /\ [][NextTimeouts]_vars

\* ============================================================== properties
Entry(t) == conversion_progress[t]
Known(t) == t \in DOMAIN conversion_progress
StatusOf(cp, t) == IF t \in DOMAIN cp THEN cp[t].status ELSE "unknown"

\* ------------------------------------------------------------------ C1
\* C1: once a task is completed, error or cancelled, no later operation changes its
\* status or any other field of its entry; the entry may only be removed.  The code
\* does not keep this: updates of the pipeline, progress callbacks, the exception
\* handler and Cancel all write to entries that are already terminal.
C1_TerminalIsFinal ==
  [][\A t \in Tasks :
       (Known(t) /\ Entry(t).status \in Terminal)
         => (t \notin DOMAIN conversion_progress' \/ conversion_progress'[t] = Entry(t))]_vars

\* ------------------------------------------------------------------ C2
\* runs that passed admission and have not yet given the permit back
Admitted == {t \in Tasks : run[t].acquired /\ run[t].released = 0}

\* C2: at every moment at most MAX_CONCURRENT_DOWNLOADS pipeline runs have passed
\* admission and not yet finished, however many were submitted; a run that finds all
\* permits taken waits no longer than the admission timeout, after which it has
\* either got a permit or failed.
C2_AdmissionBound ==
  /\ Cardinality(Admitted) + other_runs <= MAX_CONCURRENT_DOWNLOADS
  /\ \A t \in Tasks :
       /\ run[t].pc = "acquire" => run[t].waited <= ACQUIRE_TIMEOUT
       /\ run[t].pc \notin {"unsubmitted", "acquire"}
            => (run[t].acquired \/ run[t].pc \in {"except", "except_write",
                                                   "except_cleanup", "finally", "done"})

\* a run has waited the whole admission timeout with every permit held by others
C2_Witness ==
  \E t \in Tasks : /\ run[t].pc = "acquire"
                    /\ run[t].waited = ACQUIRE_TIMEOUT
                    /\ other_runs = MAX_CONCURRENT_DOWNLOADS

\* ------------------------------------------------------------------ C3
\* the permit counter accounts for every run that holds a permit
C3_Conservation ==
  /\ active_downloads \in 0..MAX_CONCURRENT_DOWNLOADS
  /\ active_downloads + Cardinality(Admitted) + other_runs = MAX_CONCURRENT_DOWNLOADS
  /\ \A t \in Tasks :
       /\ run[t].released \in {0, 1}
       /\ run[t].released = 1 => run[t].acquired
       /\ run[t].pc = "done" => (run[t].released = 1 <=> run[t].acquired)
       /\ run[t].released = 1 => run[t].pc = "done"

\* what one step may do to the counter
C3_Step ==
  /\ ((\E t \in Tasks : cancel_download(t)) \/ check_stalled_downloads)
       => active_downloads' = active_downloads
  /\ \A t \in Tasks :
       run[t].pc = "finally" /\ run'[t].pc = "done"
         => active_downloads' = active_downloads + (IF run[t].acquired THEN 1 ELSE 0)

\* C3: a run that acquired a permit releases it exactly once when it ends, whether it
\* ends by success, exception or timeout; a run that never acquired one never releases
\* one; Cancel and the StallMonitor never release permits.
C3_ReleaseOnce == []C3_Conservation /\ [][C3_Step]_vars

\* a run that held a permit and started a child process ended in its exception handler
\* and gave the permit back
C3_Witness ==
  \E t \in Tasks : /\ run[t].pc = "done" /\ run[t].acquired /\ run[t].released = 1
                    /\ Known(t) /\ Entry(t).status = "error"
                    /\ proc[t] = "reaped"
                    /\ active_downloads + other_runs = MAX_CONCURRENT_DOWNLOADS

\* ------------------------------------------------------------------ C4
\* a submitted run that holds no permit: it is waiting at the gate, or its wait expired
Unadmitted(t) == run[t].pc # "unsubmitted" /\ ~run[t].acquired
BusyEntry == ErrorEntry("Server busy")

\* nothing was started for a run without a permit, and no stage of the pipeline shows
C4_NothingStarted ==
  \A t \in Tasks :
    Unadmitted(t) =>
      /\ dl[t] = NoDl
      /\ proc[t] = "none"
      /\ t \notin active_processes
      /\ files[t] = NoFiles
      /\ run[t].released = 0
      /\ run[t].pc \in {"acquire", "except", "except_write", "except_cleanup",
                        "finally", "done"}
      /\ Known(t)
      /\ Entry(t).status \in {"initializing", "error", "cancelled"}
      /\ Entry(t).status = "error" => Entry(t) = BusyEntry

\* the steps of a run whose wait expired
C4_Step ==
  \A t \in Tasks :
    /\ (run[t].pc = "acquire" /\ run'[t].pc # "acquire" /\ ~run'[t].acquired)
         => /\ run[t].waited >= ACQUIRE_TIMEOUT
            /\ run'[t].pc = "except"
            /\ run'[t].err = "Server busy"
    /\ (Unadmitted(t) /\ run[t].pc = "except_write" /\ run'[t].pc # "except_write")
         => /\ Entry(t).status = "initializing" => conversion_progress'[t] = BusyEntry
            /\ conversion_progress'[t].status = "error"
            /\ conversion_progress'[t].message = "Error: Server busy"
    /\ (Unadmitted(t) /\ run[t].pc = "finally" /\ run'[t].pc # "finally")
         => active_downloads' = active_downloads

CancelledClean(t) ==
  /\ Known(t) /\ Entry(t) = CancelledEntry
  /\ t \notin active_processes
  /\ files[t] = NoFiles

\* C5: Cancel on a task whose fetch is in progress (or in any other active state)
\* kills the task's process, Poll returns cancelled from then on, and the task's files
\* are removed and none remain, even though the pipeline thread may still be
\* executing.  Stated for a task cancelled while its fetch is running: the task stays
\* cancelled and without files for as long as the entry exists.  The code does not
\* keep this: the download thread is not stopped, its next progress callback stores
\* status downloading again and its partial file is back on disk.
C5_CancelHolds ==
  [][\A t \in Tasks :
       (CancelledClean(t) /\ run[t].pc = "wait_dl" /\ dl[t].st = "running")
         => \/ t \notin DOMAIN conversion_progress'
            \/ /\ conversion_progress'[t].status = "cancelled"
               /\ files'[t] = NoFiles]_vars

\* ------------------------------------------------------------------ C6
\* a second Cancel, applied to the state a Cancel step has just produced, changes
\* nothing; that state has the status cancelled if the task is known, no handle and
\* no task-prefixed file
C6_Step ==
  \A t \in Tasks :
    cancel_download(t) =>
      /\ CancelProgress(conversion_progress', t) = conversion_progress'
      /\ CancelProcesses(active_processes', t) = active_processes'
      /\ CancelProc(proc', active_processes', t) = proc'
      /\ CancelFiles(files', t) = files'
      /\ t \in DOMAIN conversion_progress' <=> Known(t)
      /\ Known(t) => conversion_progress'[t].status = "cancelled"
      /\ t \notin active_processes'
      /\ files'[t] = NoFiles
      /\ proc'[t] # "running" \/ t \notin active_processes

\* C6: calling Cancel twice on the same task, with no operation in between, leaves
\* the task's entry, its handle and its files exactly as one Cancel leaves them:
\* status cancelled if the task is known, no file of the task in either folder.
C6_CancelIdempotent == [][C6_Step]_vars

\* a Cancel has killed the running child process of a task and removed its files
C6_Witness ==
  \E t \in Tasks : /\ CancelledClean(t)
                    /\ run[t].pc = "ff_loop" /\ proc[t] = "killed"

\* ------------------------------------------------------------------ C7
\* the threshold of a stage, as the configuration states it
StageThreshold(status) ==
  IF status \in {"processing", "embedding"} THEN PROCESSING_STALL_TIMEOUT
                                            ELSE STALL_TIMEOUT
StalledMessage == "Process stalled. Please try again."

\* the task is active and, at the scan that ends the current sleep, will have been
\* without an update for longer than its stage's threshold
Overdue(t) ==
  /\ Known(t) /\ Entry(t).status \notin Terminal
  /\ Entry(t).age + SCAN_INTERVAL > StageThreshold(Entry(t).status)

\* between scans no active task is idle for longer than its threshold
C7_NoOverdueSurvives ==
  \A t \in Tasks :
    (Known(t) /\ Entry(t).status \notin Terminal)
      => Entry(t).age <= StageThreshold(Entry(t).status)

\* what the scan does to an overdue task
C7_Step ==
  check_stalled_downloads =>
    \A t \in Tasks :
      Overdue(t) =>
        /\ conversion_progress'[t].status = "error"
        /\ conversion_progress'[t].message = StalledMessage
        /\ t \notin active_processes'
        /\ t \in active_processes => proc'[t] # "running"
        /\ files'[t] = NoFiles

\* C7: if a non-terminal task receives no update for longer than its stage's
\* threshold, then by the first scan after the threshold has elapsed (scans are
\* SCAN_INTERVAL apart) its status is error with a stalled message, any process
\* handle registered for it has been killed and removed, and its files are deleted.
C7_StallFails == []C7_NoOverdueSurvives /\ [][C7_Step]_vars

\* a task whose fetch went silent has been failed by the scan
C7_Witness ==
  \E t \in Tasks : /\ Known(t) /\ Entry(t).status = "error"
                    /\ Entry(t).message = StalledMessage
                    /\ run[t].pc = "wait_dl" /\ dl[t].st = "running"
                    /\ files[t] = NoFiles

\* ------------------------------------------------------------------ C8
\* C8: the StallMonitor applies the processing threshold to tasks in processing or
\* embedding and the download threshold to tasks in every other non-terminal status;
\* a scan changes exactly the tasks whose idle time exceeds the applicable threshold:
\* any other task keeps its status, percent, message, handle and files.
C8_Step ==
  check_stalled_downloads =>
    \A t \in Tasks :
      /\ Overdue(t) <=> (Known(t) /\ Entry(t).status \notin Terminal
                            /\ conversion_progress'[t].status = "error")
      /\ ~Overdue(t) =>
           /\ files'[t] = files[t]
           /\ proc'[t] = proc[t]
           /\ t \in active_processes' <=> t \in active_processes
           /\ t \in DOMAIN conversion_progress' <=> Known(t)
           /\ Known(t) => conversion_progress'[t] =
                             [Entry(t) EXCEPT !.age = conversion_progress'[t].age]

C8_ScanChangesOnlyStalled == [][C8_Step]_vars

\* a task in processing has survived a scan with an idle time equal to the
\* processing threshold, far beyond the download threshold
C8_Witness ==
  \E t \in Tasks : /\ Known(t) /\ Entry(t).status = "processing"
                    /\ Entry(t).age = PROCESSING_STALL_TIMEOUT

\* ------------------------------------------------------------------ C9
WorkStatuses == {"downloading", "processing", "embedding"}

\* C9: while a task's status stays within downloading, processing and embedding,
\* every progress update written by the pipeline or by a progress callback leaves
\* percent greater than or equal to its value before the update.  The code does not
\* keep this: the callback for a finished stream stores 87 and the pipeline's next
\* update stores 86; the callback for the first bytes of a second stream stores the
\* fraction of that stream.
C9_PercentMonotone ==
  [][\A t \in Tasks :
       (/\ Known(t) /\ t \in DOMAIN conversion_progress'
        /\ Entry(t).status \in WorkStatuses
        /\ conversion_progress'[t].status \in WorkStatuses)
         => conversion_progress'[t].percent >= Entry(t).percent]_vars

\* ------------------------------------------------------------------ C10
\* C10: a submitted audio/mp3 task that is admitted and whose fetch and transcode
\* succeed shows the statuses initializing, connecting, starting, downloading,
\* processing, embedding, completed in this order, and FetchResult then returns a
\* file with extension .mp3 and MIME type audio/mpeg.  Stated for the last link of
\* the sequence: such a task enters completed from embedding.  The code does not keep
\* this: status embedding is stored only when a thumbnail was fetched, otherwise the
\* task goes from processing to completed.
C10_EmbeddingBeforeCompleted ==
  [][\A t \in Tasks :
       (/\ opts[t].format = "audio" /\ opts[t].audio_format = "mp3"
        /\ Known(t) /\ t \in DOMAIN conversion_progress'
        /\ Entry(t).status # "completed"
        /\ conversion_progress'[t].status = "completed")
         => Entry(t).status = "embedding"]_vars

\* ------------------------------------------------------------------ C11
\* the run of a video task with quality best that has located a fetched MP4 file
Direct(t) ==
  /\ opts[t].format = "video" /\ opts[t].quality = "best"
  /\ run[t].src = ".mp4"

\* such a run never reaches the Encoder: no process exists, no handle is registered
C11_NoEncoder ==
  \A t \in Tasks :
    Direct(t) =>
      /\ run[t].pc \in {"v_branch", "verify", "complete", "finally"}
      /\ proc[t] = "none"
      /\ t \notin active_processes
      /\ run[t].pc \in {"verify", "complete", "finally"} => run[t].out = ".mp4"
      /\ run[t].pc \in {"complete", "finally"} => run[t].final_size >= MIN_OUTPUT_SIZE

\* the fetched file is not rewritten while the run goes on, the size the run reads is
\* the size of that file, and the completed record names that file and that size
C11_Step ==
  \A t \in Tasks :
    Direct(t) =>
      /\ (".mp4" \in DOMAIN files[t] /\ ".mp4" \in DOMAIN files'[t])
           => files'[t][".mp4"] = files[t][".mp4"]
      /\ (run[t].pc = "verify" /\ run'[t].pc = "complete")
           => run'[t].final_size = files[t][".mp4"]
      /\ (run[t].pc = "complete" /\ run'[t].pc = "finally")
           => /\ conversion_progress'[t].status = "completed"
              /\ conversion_progress'[t].filename = ".mp4"
              /\ conversion_progress'[t].file_size = run[t].final_size
              /\ conversion_progress'[t].format = "video"

\* C11: for a video task with quality best whose fetched file has the MP4 container,
\* the pipeline never invokes the Encoder (no process handle is ever registered for
\* the task) and the task completes with the fetched file itself as output, its byte
\* size unchanged.
C11_DirectMp4 == []C11_NoEncoder /\ [][C11_Step]_vars

\* such a task has completed: no process was ever started for it, and the file the
\* record names is on disk with the recorded size
C11_Witness ==
  \E t \in Tasks :
    /\ opts[t].format = "video" /\ opts[t].quality = "best"
    /\ run[t].pc = "done" /\ proc[t] = "none"
    /\ Known(t) /\ Entry(t).status = "completed" /\ Entry(t).filename = ".mp4"
    /\ ".mp4" \in DOMAIN files[t] /\ files[t][".mp4"] = Entry(t).file_size

\* ------------------------------------------------------------------ C12
\* an id without an entry is answered with the synthetic record
C12_UnknownAnswer ==
  \A id \in PollIds :
    id \notin DOMAIN conversion_progress
      => /\ ProgressResponse(conversion_progress, id) = UnknownProgress
         /\ ProgressResponse(conversion_progress, id).status = "unknown"

\* a Poll step changes nothing: no entry appears, no other state moves
C12_Step ==
  \A id \in PollIds :
    get_progress(id) =>
      /\ DOMAIN conversion_progress' = DOMAIN conversion_progress
      /\ UNCHANGED vars

\* C12: for every task id that is not present in the TaskRegistry (never submitted,
\* or removed after FetchResult), Poll returns the synthetic status unknown and
\* neither creates an entry nor changes any state.
C12_PollUnknown == []C12_UnknownAnswer /\ [][C12_Step]_vars

\* the task was submitted and served, its entry has been removed, and Poll answers
\* unknown for it as it does for the id that was never issued
C12_Witness ==
  \E t \in Tasks :
    /\ run[t].pc = "done" /\ ~Known(t)
    /\ ProgressResponse(conversion_progress, t).status = "unknown"
    /\ ProgressResponse(conversion_progress, "t0").status = "unknown"

\* ------------------------------------------------------------------ C13
\* the reference formula of downloadTimeout
RefDownloadTimeout(d) ==
  IF d = 0 THEN 3600
  ELSE Min(7200, 600 + 120 * (d \div 600)
                   + (IF d > 3600 THEN 60 * ((d - 3600) \div 600) ELSE 0))

\* C13: calculate_timeout (downloadTimeout) equals the reference formula for every
\* non-negative integer duration in a bounded range: 3600 when the duration is
\* 0/unknown, otherwise min(7200, 600 + 120*floor(d/600) + (60*floor((d-3600)/600) if
\* d > 3600 else 0)); in particular downloadTimeout(0) = 3600 and
\* downloadTimeout(600) = 720.
C13_DownloadTimeout ==
  /\ timing.pc = "calculated"
       => timing.download_timeout = RefDownloadTimeout(timing.video_duration)
  /\ calculate_timeout(0) = 3600
  /\ calculate_timeout(600) = 720

\* the timeout of a video of more than an hour has been computed, below the cap
C13_Witness ==
  /\ timing.pc = "calculated" /\ timing.video_duration = 4200
  /\ timing.download_timeout = 600 + 120 * 7 + 60

\* ------------------------------------------------------------------ C14
\* C14 as stated: downloadTimeout(7200) equals 2520.  The function returns
\* 600 + 120*12 + 60*6, which is 2400.
C14_Original ==
  (timing.pc = "calculated" /\ timing.video_duration = 7200)
    => timing.download_timeout = 2520

\* C14, amended: downloadTimeout(7200) equals 2400.
C14_At7200 ==
  (timing.pc = "calculated" /\ timing.video_duration = 7200)
    => timing.download_timeout = 2400

\* the timeout of a two-hour video has been computed
C14_Witness ==
  /\ timing.pc = "calculated" /\ timing.video_duration = 7200
  /\ timing.duration = 7200 /\ timing.download_timeout = 2400

\* ------------------------------------------------------------------ C15
\* the reference formula of encodeTimeout
RefEncodeTimeout(d) ==
  IF d = 0 THEN 1800 ELSE Min(7200, 300 + 30 * (d \div 60))

\* C15: calculate_ffmpeg_timeout (encodeTimeout) equals the reference formula for
\* every non-negative integer duration in a bounded range: 1800 when the duration is
\* 0/unknown, otherwise min(7200, 300 + 30*floor(d/60)); in particular
\* encodeTimeout(600) = 600.
C15_EncodeTimeout ==
  /\ timing.pc = "calculated"
       => timing.ffmpeg_timeout = RefEncodeTimeout(timing.video_duration)
  /\ calculate_ffmpeg_timeout(600) = 600

\* the Encoder timeout of a ten-minute video has been computed
C15_Witness ==
  /\ timing.pc = "calculated" /\ timing.video_duration = 600
  /\ timing.ffmpeg_timeout = 600

\* ------------------------------------------------------------------ C16
\* C16: neither downloadTimeout nor encodeTimeout ever returns a value above 7200 for
\* any duration, including very large ones (e.g. 10,000,000); consequently every
\* download wait and every Encoder timeout the pipeline passes on is at most 7200 s.
C16_TimeoutCap ==
  /\ timing.download_timeout <= 7200
  /\ timing.ffmpeg_timeout <= 7200
  /\ timing.passed <= 7200
  /\ calculate_timeout(HugeDuration) <= 7200
  /\ calculate_ffmpeg_timeout(HugeDuration) <= 7200
  /\ timing.pc = "calculated"
       => /\ timing.download_timeout = calculate_timeout(timing.video_duration)
          /\ timing.ffmpeg_timeout = calculate_ffmpeg_timeout(timing.video_duration)

\* the Encoder was given its timeout for the absurdly long video: the cap
C16_Witness ==
  /\ timing.video_duration = HugeDuration /\ timing.pc = "encoded"
  /\ timing.passed = 7200 /\ timing.download_timeout = 7200

\* ------------------------------------------------------------------ C17
\* every file on disk has one of the names the Janitor's listing is modelled with,
\* only files on disk are marked old, and a task in initializing has no file yet
C17_Files ==
  \A t \in Tasks :
    /\ DOMAIN files[t] \subseteq FileNames
    /\ aged[t] \subseteq DOMAIN files[t]
    /\ (Known(t) /\ Entry(t).status = "initializing") => files[t] = NoFiles

\* a Janitor step removes nothing but the one file it looks at, and removes that file
\* only if it is old and its task is absent from the registry or terminal
C17_Step ==
  \A t \in Tasks : \A n \in FileNames :
    cleanup_old_files(t, n) =>
      /\ \A m \in DOMAIN files[t] \ {n} :
           m \in DOMAIN files'[t] /\ files'[t][m] = files[t][m]
      /\ n \notin DOMAIN files'[t]
           => /\ n \in aged[t]
              /\ ~Known(t) \/ Entry(t).status \in Terminal
      /\ (Known(t) /\ Entry(t).status \notin Terminal) => files'[t] = files[t]

\* C17: the JanitorLoop deletes a file only if the file is older than CLEANUP_AGE and
\* the task id derived from its name is absent from the TaskRegistry or in a terminal
\* state; it never deletes a file whose owning task is in any non-terminal state
\* (initializing, connecting, starting, downloading, processing, embedding), however
\* old the file is.
C17_JanitorSafe == []C17_Files /\ [][C17_Step]_vars

\* a file of a task in processing is older than CLEANUP_AGE, and it is on disk
C17_Witness ==
  \E t \in Tasks : \E n \in aged[t] :
    /\ Known(t) /\ Entry(t).status = "processing"
    /\ n \in DOMAIN files[t]
    /\ run[t].pc = "ff_loop"

\* ---------------------------------------------------------------- C18
\* the hosts of the supported platforms
AllowedHosts == {Str.youtube, Str.youtu_be} \cup PlatformPatterns
\* the host is a supported platform's domain or a subdomain of one
OnAllowlist(url) ==
  \E d \in AllowedHosts : url.netloc = d \/ EndsWith(url.netloc, <<".">> \o d)
BadUrl(url) == url = EmptyUrl \/ url.netloc = <<>> \/ ~OnAllowlist(url)

C18_Step ==
  \A t \in Tasks, data \in AllRequests :
    (BadUrl(data.url) /\ convert_media(t, data)) => UNCHANGED vars

\* C18: a Submit whose URL is empty, malformed or not on the supported-platform
\* allowlist is rejected: it creates no registry entry, starts no pipeline run,
\* takes no permit and writes no file (it changes nothing).
C18_BadUrlRejected == [][C18_Step]_vars

\* ---------------------------------------------------------------- C19
BadFormat(data) ==
  \/ data.format = "audio" /\ data.audioFormat \notin DOMAIN AUDIO_FORMATS
  \/ data.format \notin FormatTypes

C19_Step ==
  \A t \in Tasks, data \in AllRequests :
    (BadFormat(data) /\ convert_media(t, data)) => UNCHANGED vars

\* C19: a Submit that asks for an audio format outside the catalog, or for an output
\* kind other than audio and video, is rejected before any task is created: no
\* registry entry and no pipeline run result from it.
C19_BadFormatRejected == [][C19_Step]_vars

\* ---------------------------------------------------------------- C20
\* the run is about to leave run_conversion through the except handler: only the
\* path to success carries the name of the output
Raising(t) == run[t].pc = "finally" /\ run[t].out = ""

ErrorText(e) == SubSeq(e.message, Len("Error: ") + 1, Len(e.message))

HandlerDone(t) ==
  /\ t \notin active_processes
  /\ Known(t) /\ Entry(t).status = "error"
  /\ StartsWith(Entry(t).message, "Error: ")
  /\ Len(ErrorText(Entry(t))) <= ERR_LIMIT
  /\ files[t] = NoFiles

C20_Step == \A t \in Tasks : (Raising(t) /\ RunFinally(t)) => HandlerDone(t)'

\* C20: when a step of a pipeline run raises, the run ends with no process handle
\* registered for the task, the task's entry being error with at most 300 characters
\* of error text, and no file of the task left in either folder.
C20_HandlerLeavesNothing == [][C20_Step]_vars

\* ---------------------------------------------------------------- C21
\* C21: once a fired download timeout or encode timeout has been handled, no download
\* of the task is still running and no child process of it is alive.
C21_TimeoutEndsWork ==
  \A t \in Tasks :
    /\ (run[t].pc = "except_write" /\ run[t].err = "Download timed out")
         => dl[t].st # "running"
    /\ (run[t].pc \in {"except", "except_write"} /\ run[t].err # "")
         => proc[t] # "running"

\* ---------------------------------------------------------------- C22
\* the first Encoder run was a remux and it failed
RemuxFailed(t) ==
  /\ run[t].pc = "v_enc_ret" /\ ~run[t].needs_full
  /\ ~(run[t].success /\ run[t].tmp \in DOMAIN files[t])

\* a task makes at most one fetch and at most two conversions, two only when a remux
\* (quality best, WebM/MKV source) was followed by the re-encode
C22_AtMostOnce ==
  \A t \in Tasks :
    /\ run[t].fetches <= 1
    /\ run[t].encodes <= 2
    /\ run[t].encodes = 2 =>
         /\ opts[t].format # "audio" /\ opts[t].quality = "best"
         /\ run[t].src # "" => run[t].src \in {".webm", ".mkv"}
         /\ run[t].pc \notin {"v_branch", "v_enc_ret"}

\* whatever run_ffmpeg_with_progress returns to, a failed step raises, except the
\* failed remux
C22_Step ==
  \A t \in Tasks :
    /\ (RemuxFailed(t) /\ RunVideoEncoded(t)) =>
          /\ run'[t].pc = "ff_start" /\ run'[t].ret = "v_enc2_ret"
          /\ run'[t].encodes = 2
    /\ (run[t].pc \in {"a_conv_ret", "v_enc2_ret"} /\ ~run[t].success
          /\ (RunAudioConverted(t) \/ RunVideoReencoded(t)))
         => run'[t].pc = "except"
    /\ (run[t].pc = "v_enc_ret" /\ ~run[t].success /\ run[t].needs_full
          /\ RunVideoEncoded(t))
         => run'[t].pc = "except"

\* C22: in the video path a failed remux is followed by exactly one full re-encode
\* attempt, and the task fails only if that attempt fails too; no other failed fetch
\* or conversion is run again: at most one fetch and at most two conversions per
\* task, two only in the remux-then-re-encode case.
C22_OneFallback == []C22_AtMostOnce /\ [][C22_Step]_vars

\* ---------------------------------------------------------------- C23
\* the entry of a submitted task is gone: only the deferred removal drops entries
Removed(t) == run[t].pc # "unsubmitted" /\ ~Known(t)

C23_Step ==
  \A t \in Tasks :
    /\ download_file(t) => Cardinality(removals'[t]) = Cardinality(removals[t]) + 1
    /\ delayed(t) => Removed(t)'
    /\ Removed(t) => Removed(t)'

\* C23: a FetchResult that serves an artifact schedules the removal of the task's
\* entry; after the delay the entry is removed, and from then on it stays absent (Poll
\* answers unknown).
C23_RemovedForGood == [][C23_Step]_vars

\* ---------------------------------------------------------------- C24
\* the run holds a permit it has not given back yet
Holding(t) == run[t].acquired /\ run[t].pc # "done"

\* C24: every pipeline run that has acquired a permit eventually releases it, whatever
\* the Fetcher and the child process do.
C24_PermitReturned == \A t \in Tasks : Holding(t) ~> ~Holding(t)

\* ---------------------------------------------------------------- C25
\* the task has just been submitted: its run has not taken a step yet
Submitted(t) == run[t].pc = "acquire"
InTerminal(t) == Known(t) /\ Entry(t).status \in Terminal

\* C25: under fair scheduling every submitted task eventually reaches a terminal
\* status (completed, error or cancelled), also when the Fetcher goes silent or the
\* child process hangs.
C25_ReachesTerminal == \A t \in Tasks : Submitted(t) ~> InTerminal(t)

\* the metadata-only call never returned and the StallMonitor failed the task
C25_Witness ==
  \E t \in Tasks : /\ run[t].pc = "preinfo"
                    /\ Known(t) /\ Entry(t).status = "error"
                    /\ Entry(t).message = StalledMessage

\* ---------------------------------------------------------------- C26
\* a step of the pipeline run raises KeyError: an update found no entry
RaisesKeyError(t) == run'[t].pc = "except" /\ run'[t].err = "KeyError"

C26_Step ==
  \A t \in Tasks :
    (~Known(t) /\ PipelineStep(t)) => (~RaisesKeyError(t) /\ ~Known(t)')

\* C26: an update addressed to a task id that is absent from the registry is a no-op:
\* it does not raise and it does not create an entry for that id.
C26_AbsentUpdateIsNoOp == [][C26_Step]_vars

\* ---------------------------------------------------------------- C27
InSupervisor(t) == run[t].pc \in {"ff_start", "ff_register", "ff_loop"}
\* run_ffmpeg_with_progress returns to its caller
SupervisorReturns(t) == InSupervisor(t) /\ ~InSupervisor(t)'

C27_Step ==
  \A t \in Tasks :
    SupervisorReturns(t) =>
      /\ run'[t].pc = run[t].ret
      /\ run'[t].success <=> (run[t].pc = "ff_loop" /\ proc[t] = "exit0")
      /\ t \notin active_processes'

\* C27: run_ffmpeg_with_progress returns success if and only if the child process
\* exited with code 0 before the timeout fired, and on every return path no handle of
\* the task is left in active_processes.
C27_SupervisorResult == [][C27_Step]_vars

\* the supervisor has returned failure after its timeout or a non-zero exit
C27_Witness ==
  \E t \in Tasks : /\ run[t].pc \in {"a_conv_ret", "v_enc_ret", "v_enc2_ret"}
                    /\ ~run[t].success /\ proc[t] = "reaped"
                    /\ t \notin active_processes

\* ---------------------------------------------------------------- C28
\* C28: a registered handle refers to a child process that has not been confirmed
\* exited, and without a registered handle no child process of the task is running.
C28_HandleMeansProcess ==
  \A t \in Tasks :
    /\ t \in active_processes => proc[t] \notin {"none", "reaped"}
    /\ t \notin active_processes => proc[t] # "running"

\* ---------------------------------- lock scopes (progress_lock, process_lock)
\* One step of a thread: from position `from` to position `to`, entering the `with` blocks of
\* the locks in takes and leaving those of the locks in gives. A position names what the
\* thread is doing while it stands there.
LockStep(from, to, takes, gives) == [from |-> from, to |-> to, takes |-> takes, gives |-> gives]

\* check_stalled_downloads: the whole scan runs inside `with progress_lock:`; for a stalled
\* task it kills under the nested process_lock, writes the entry and removes the files
MonitorSteps ==
  { LockStep("idle", "scan", {"progress_lock"}, {}),
    LockStep("scan", "handle", {"process_lock"}, {}),
    LockStep("handle", "kill", {}, {}),
    LockStep("kill", "mark", {}, {"process_lock"}),
    LockStep("handle", "mark", {}, {"process_lock"}),
    LockStep("mark", "remove", {}, {}),
    LockStep("remove", "scan", {}, {}),
    LockStep("scan", "idle", {}, {"progress_lock"}) }

\* cleanup_old_files: for an old file, the status test and os.remove inside progress_lock
JanitorSteps ==
  { LockStep("idle", "status", {"progress_lock"}, {}),
    LockStep("status", "remove", {}, {}),
    LockStep("remove", "idle", {}, {"progress_lock"}),
    LockStep("status", "idle", {}, {"progress_lock"}) }

\* faulty variant of KillMarkRemoveSteps: the entry is written before process_lock is
\* released
KillMarkNestedSteps ==
  { LockStep("idle", "handle", {"process_lock"}, {}),
    LockStep("handle", "kill", {}, {}),
    LockStep("kill", "mark", {"progress_lock"}, {}),
    LockStep("handle", "mark", {"progress_lock"}, {}),
    LockStep("mark", "remove", {}, {"progress_lock", "process_lock"}),
    LockStep("remove", "idle", {}, {}) }

\* cancel_download and the except branch of run_conversion: the kill inside process_lock,
\* the entry written inside progress_lock, the task's files removed after both blocks
KillMarkRemoveSteps ==
  { LockStep("idle", "handle", {"process_lock"}, {}),
    LockStep("handle", "kill", {}, {}),
    LockStep("kill", "unlocked", {}, {"process_lock"}),
    LockStep("handle", "unlocked", {}, {"process_lock"}),
    LockStep("unlocked", "mark", {"progress_lock"}, {}),
    LockStep("mark", "remove", {}, {"progress_lock"}),
    LockStep("remove", "idle", {}, {}) }

\* get_progress: copies the entry inside progress_lock
PollSteps ==
  { LockStep("idle", "copy", {"progress_lock"}, {}),
    LockStep("copy", "idle", {}, {"progress_lock"}) }

\* run_ffmpeg_with_progress: the handle stored inside process_lock, each ping inside
\* progress_lock, the handle deleted inside process_lock
SupervisorSteps ==
  { LockStep("idle", "register", {"process_lock"}, {}),
    LockStep("register", "watching", {}, {"process_lock"}),
    LockStep("watching", "ping", {"progress_lock"}, {}),
    LockStep("ping", "watching", {}, {"progress_lock"}),
    LockStep("watching", "unregister", {"process_lock"}, {}),
    LockStep("unregister", "idle", {}, {"process_lock"}) }

\* progress_hook, and download_file with its deferred pop, use progress_lock as
\* get_progress does: one block around the access to the entry
StepsOf ==
  [monitor |-> MonitorSteps, janitor |-> JanitorSteps, cancel |-> KillMarkRemoveSteps,
   handler |-> KillMarkRemoveSteps, poll |-> PollSteps, supervisor |-> SupervisorSteps,
   hook |-> PollSteps, fetch |-> PollSteps]

\* thread th takes its next step; a `with lock:` statement blocks until the lock is free
LockedRegion(th) ==
  /\ \E s \in StepsOf[th] :
       /\ locking.at[th] = s.from
       /\ \A l \in s.takes : locking[l] = ""
       /\ locking' = [l \in DOMAIN locking |->
                        IF l = "at" THEN [locking.at EXCEPT ![th] = s.to]
                        ELSE IF l \in s.takes THEN th
                        ELSE IF l \in s.gives THEN ""
                        ELSE locking[l]]
  /\ UNCHANGED <<conversion_progress, active_downloads, other_runs, active_processes,
                 proc, files, opts, run, dl, removals, aged, timing,
                 video_info_cache, info_calls>>

NextLocks == \E th \in Threads : LockedRegion(th)

SpecLocks == Init /\ [][NextLocks]_vars

\* the locks thread th holds
HeldBy(th) == {l \in {"progress_lock", "process_lock"} : locking[l] = th}

\* the positions where a thread is inside an external operation: kill_process_tree or
\* process.kill() ("kill"), os.listdir and os.remove ("remove")
ExternalOps == {"kill", "remove"}

\* a Poll is waiting for progress_lock while its holder kills a process or removes files
PollWaitsBehind(op) ==
  /\ locking.at["poll"] = "idle"
  /\ \E th \in Threads : locking.at[th] = op /\ locking.progress_lock = th

\* C29: no lock is held while a thread kills a process or deletes files: a thread standing
\* in an external operation holds neither progress_lock nor process_lock, so a Poll never
\* finds progress_lock taken by a thread that is killing or deleting
C29_NoLockAcrossExternalOps ==
  /\ \A th \in Threads : locking.at[th] \in ExternalOps => HeldBy(th) = {}
  /\ \A op \in ExternalOps : ~PollWaitsBehind(op)

\* ------------------------------------------------------------ kill-all
\* kill_all_downloads: every registered process killed and the handles cleared, every
\* unfinished entry overwritten, every file of both folders removed
kill_all_downloads ==
  /\ proc' = [t \in Tasks |-> IF t \in active_processes THEN Killed(proc[t]) ELSE proc[t]]
  /\ active_processes' = {}
  /\ conversion_progress' =
       [t \in DOMAIN conversion_progress |->
          IF conversion_progress[t].status \notin {"completed", "error", "cancelled"}
          THEN NewEntry("error", 0, "Manually terminated") ELSE conversion_progress[t]]
  /\ files' = [t \in Tasks |-> NoFiles]
  /\ aged' = [t \in Tasks |-> {}]
  /\ UNCHANGED <<active_downloads, other_runs, opts, run, dl, removals, timing, locking, video_info_cache, info_calls>>

\* the program with contention for permits and with the emergency endpoint
NextAdmin == NextGate \/ kill_all_downloads

SpecAdmin == Init /\ [][NextAdmin]_vars

\* run_ffmpeg_with_progress is in its loop over a running child of a task whose entry is
\* in processing or embedding
Supervised(t) ==
  /\ run[t].pc = "ff_loop" /\ proc[t] = "running"
  /\ Known(t) /\ Entry(t).status \in {"processing", "embedding"}

\* the entry of a supervised task was refreshed within the last sleep of the scan
C30_Refreshed == \A t \in Tasks : Supervised(t) => Entry(t).age <= SCAN_INTERVAL

\* no step declares a supervised task stalled
C30_NotStalled ==
  \A t \in Tasks : Supervised(t) => ~(Known(t)' /\ Entry(t)'.message = StalledMessage)

\* the child of a supervised task stops running only in a step of its own exit, of the
\* encode timeout or of Cancel
C30_EndedBy ==
  \A t \in Tasks :
    (Supervised(t) /\ proc'[t] # "running")
      => (ProcExit(t) \/ FfTimeout(t) \/ cancel_download(t))

\* C30: while the supervisor watches a running child of a task in processing or embedding,
\* the task's entry is refreshed between any two scans, so the StallMonitor never declares
\* the task stalled, and the child is ended only by its own exit, by the encode timeout or
\* by Cancel
C30_SupervisedNeverStalled ==
  []C30_Refreshed /\ [][C30_NotStalled /\ C30_EndedBy]_vars

\* the percent band of each stage, in hundredths (PercentBand of error and cancelled: any)
PercentBand(status) ==
  CASE status = "initializing" -> {P(1)}
    [] status = "connecting" -> P(2)..P(3)
    [] status = "starting" -> {P(5)}
    [] status = "downloading" -> P(5)..P(85)
    [] status = "processing" -> P(86)..P(94)
    [] status = "embedding" -> P(95)..P(99)
    [] status = "completed" -> {P(100)}
    [] OTHER -> 0..P(100)

\* C31: in every reachable state the percent of a stored task lies in the band of its
\* status, and it is 100 exactly when the status is completed
C31_PercentInBand ==
  \A t \in Tasks :
    Known(t) => /\ Entry(t).percent \in PercentBand(Entry(t).status)
                /\ (Entry(t).percent = P(100)) <=> (Entry(t).status = "completed")

\* the position of a status in the order of the stages (0 for error and cancelled)
StageRank(status) ==
  IF \E i \in DOMAIN Stages : Stages[i] = status
  THEN CHOOSE i \in DOMAIN Stages : Stages[i] = status
  ELSE 0

C32_Step ==
  \A t \in Tasks :
    (Known(t) /\ Known(t)' /\ StageRank(Entry(t).status) > 0)
      => \/ Entry(t)'.status \in {"error", "cancelled"}
         \/ StageRank(Entry(t)'.status) >= StageRank(Entry(t).status)

\* C32: the stored status of a task only moves forward along initializing, connecting,
\* starting, downloading, processing, embedding, completed, or jumps to error or
\* cancelled; no step of the pipeline or of a progress callback moves it back
C32_StatusForward == [][C32_Step]_vars

\* a progress callback of a download whose total size is unknown, for a stored task
UnknownTotalCallback(t) == DlProgress(t) /\ ~dl[t].known /\ Known(t)

C33_Step ==
  \A t \in Tasks :
    UnknownTotalCallback(t)
      => Entry(t)'.percent = Min(Entry(t).percent + 30, P(85))

\* C33: while the total size is unknown, every downloading progress callback raises the
\* stored percent by 0.3, up to 85 and never above it: the percent is not left as it was
C33_TrickleAdvances == [][C33_Step]_vars

\* the output file of the run exists and has at least the minimum plausible size
OutputPlausible(t) ==
  run[t].out \in DOMAIN files[t] /\ files[t][run[t].out] >= MIN_OUTPUT_SIZE

\* the exceptions of the final check
VerifyErrors == {"Final output file not found", "Output file is too small"}

\* the run is in its exception handler after the final check failed
VerifyFailed(t) == run[t].err \in VerifyErrors

C34_Step ==
  \A t \in Tasks :
    /\ (run[t].pc = "verify" /\ run'[t].pc # "verify")
         => IF OutputPlausible(t)
            THEN run'[t].pc = "complete" /\ run'[t].final_size = files[t][run[t].out]
            ELSE run'[t].pc = "except" /\ run'[t].err \in VerifyErrors
    /\ (Known(t)' /\ Entry(t)'.status = "completed" /\ StatusOf(conversion_progress, t) # "completed")
         => /\ run[t].pc = "complete"
            /\ Entry(t)'.file_size = run[t].final_size
    /\ (VerifyFailed(t) /\ run[t].pc = "except_write")
         => (run'[t].pc # "except_write" => Entry(t)'.status = "error")

C34_State ==
  \A t \in Tasks :
    /\ run[t].pc = "complete" => run[t].final_size >= MIN_OUTPUT_SIZE
    /\ Known(t) /\ Entry(t).status = "completed" => Entry(t).file_size >= MIN_OUTPUT_SIZE
    /\ VerifyFailed(t) /\ Known(t) => Entry(t).status # "completed"

\* C34: a task is marked completed only if the final check found its output file present
\* and of at least 1000 bytes; when the file is missing or smaller the check raises, the
\* handler stores error, and the task is never seen as completed
C34_CompletedOnlyIfPlausible == []C34_State /\ [][C34_Step]_vars

\* the final check rejected a near-empty output and the handler has stored the error
C34_Witness ==
  \E t \in Tasks :
    /\ run[t].pc = "except_cleanup"
    /\ Known(t) /\ Entry(t).status = "error"
    /\ Entry(t).message = "Error: Output file is too small"

\* ------------------------------------------------ get_video_info and its cache
\* video_info_cache is a dict: a sequence of entries in insertion order, one per key
CacheKeys(c) == {c[i].key : i \in DOMAIN c}

\* video_info_cache[url_hash] = {...}: a key that is present keeps its place
CachePut(c, k, at) ==
  IF k \in CacheKeys(c)
  THEN [i \in DOMAIN c |-> IF c[i].key = k THEN [key |-> k, cached_at |-> at] ELSE c[i]]
  ELSE Append(c, [key |-> k, cached_at |-> at])

\* faulty variant of Oldest: the key that was inserted first
OldestInserted(c) == c[1].key

\* min(video_info_cache.keys(), key=cached_at): the first key, in iteration order, among
\* those with the least timestamp
Oldest(c) ==
  LET i == CHOOSE i \in DOMAIN c :
             /\ \A j \in DOMAIN c : c[j].cached_at >= c[i].cached_at
             /\ \A j \in 1..(i - 1) : c[j].cached_at > c[i].cached_at
  IN c[i].key

\* the insertion and the eviction that follows it, both inside cache_lock
CacheInsert(c, k, at) ==
  LET put == CachePut(c, k, at)
  IN IF Len(put) > CACHE_LIMIT
     THEN SelectSeq(put, LAMBDA e : e.key # Oldest(put))
     ELSE put

\* the lookup inside cache_lock: a hit answers from the cache while the entry is fresh
CacheHit(c, k, now) ==
  \E i \in DOMAIN c : c[i].key = k /\ now - c[i].cached_at < CACHE_TTL

\* the URLs asked about, as their hashes: two that a full cache holds (its first and its
\* last key) and two that it does not hold
InfoUrls == {1, CACHE_LIMIT, CACHE_LIMIT + 1, CACHE_LIMIT + 2}

\* a cache filled by n earlier requests, one per second, and the clock after them
InitInfo ==
  /\ conversion_progress = [t \in {} |-> 0]
  /\ active_downloads = MAX_CONCURRENT_DOWNLOADS
  /\ other_runs = 0
  /\ active_processes = {}
  /\ proc = [t \in Tasks |-> "none"]
  /\ files = [t \in Tasks |-> NoFiles]
  /\ opts = [t \in Tasks |-> NoOpts]
  /\ run = [t \in Tasks |-> NoRun]
  /\ dl = [t \in Tasks |-> NoDl]
  /\ removals = [t \in Tasks |-> {}]
  /\ aged = [t \in Tasks |-> {}]
  /\ timing = NoTiming
  /\ locking = NoLocking
  /\ \E n \in {CACHE_LIMIT - 1, CACHE_LIMIT} :
       /\ video_info_cache = [i \in 1..n |-> [key |-> i, cached_at |-> i]]
       /\ info_calls = [NoInfoCalls EXCEPT !.now = n, !.left = MaxInfoCalls]

InfoUnchanged ==
  UNCHANGED <<conversion_progress, active_downloads, other_runs, active_processes,
              proc, files, opts, run, dl, removals, aged, timing, locking>>

\* get_video_info up to the cache lookup: a fresh hit is answered at once
InfoRequest(c, u) ==
  /\ info_calls.at[c].pc = "idle" /\ info_calls.left > 0
  /\ info_calls' =
       [info_calls EXCEPT
          !.left = @ - 1,
          !.at[c] = IF CacheHit(video_info_cache, u, info_calls.now)
                    THEN [pc |-> "idle", url |-> 0]
                    ELSE [pc |-> "fetching", url |-> u]]
  /\ UNCHANGED video_info_cache
  /\ InfoUnchanged

\* extract_info returned the metadata of a video that is not too long
InfoFetched(c) ==
  /\ info_calls.at[c].pc = "fetching"
  /\ info_calls' = [info_calls EXCEPT !.at[c].pc = "insert"]
  /\ UNCHANGED video_info_cache
  /\ InfoUnchanged

\* extract_info raised, or the video is longer than MAX_DURATION: an error is answered
InfoFailed(c) ==
  /\ info_calls.at[c].pc = "fetching"
  /\ info_calls' = [info_calls EXCEPT !.at[c] = [pc |-> "idle", url |-> 0]]
  /\ UNCHANGED video_info_cache
  /\ InfoUnchanged

\* the result is stored with the current time and the cache is cut back to its limit
InfoInsert(c) ==
  /\ info_calls.at[c].pc = "insert"
  /\ video_info_cache' = CacheInsert(video_info_cache, info_calls.at[c].url, info_calls.now)
  /\ info_calls' = [info_calls EXCEPT !.at[c] = [pc |-> "idle", url |-> 0]]
  /\ InfoUnchanged

\* time passes: a second, or long enough for every entry to expire
InfoTime ==
  /\ info_calls.ticks < MaxInfoTicks
  /\ \E d \in {1, CACHE_TTL} :
       info_calls' = [info_calls EXCEPT !.now = @ + d, !.ticks = @ + 1]
  /\ UNCHANGED video_info_cache
  /\ InfoUnchanged

NextInfo ==
  \/ \E c \in InfoCallers, u \in InfoUrls : InfoRequest(c, u)
  \/ \E c \in InfoCallers : InfoFetched(c) \/ InfoFailed(c) \/ InfoInsert(c)
  \/ InfoTime

SpecInfo == InitInfo /\ [][NextInfo]_vars

\* the keys of the cache are distinct and there are at most CACHE_LIMIT of them
C35_State ==
  /\ Len(video_info_cache) <= CACHE_LIMIT
  /\ Cardinality(CacheKeys(video_info_cache)) = Len(video_info_cache)

\* the timestamp stored for key k
CachedAt(c, k) == c[CHOOSE i \in DOMAIN c : c[i].key = k].cached_at

C35_Step ==
  \A c \in InfoCallers :
    /\ InfoInsert(c) =>
         LET k == info_calls.at[c].url
             put == CachePut(video_info_cache, k, info_calls.now)
             gone == CacheKeys(put) \ CacheKeys(video_info_cache')
         IN /\ CacheKeys(video_info_cache') \subseteq CacheKeys(put)
            /\ IF Len(put) > CACHE_LIMIT
               THEN /\ Cardinality(gone) = 1
                    /\ \A g \in gone : \A i \in DOMAIN put :
                         put[i].cached_at >= CachedAt(put, g)
               ELSE gone = {} /\ k \in CacheKeys(video_info_cache')
    /\ InfoFailed(c) => video_info_cache' = video_info_cache

\* C35: after every get_video_info call, for any interleaving of concurrent calls, the
\* cache holds at most 100 entries; an insertion that takes it past 100 evicts the entry
\* with the oldest timestamp; a failed metadata fetch inserts nothing
C35_CacheBounded == []C35_State /\ [][C35_Step]_vars

\* a full cache took a new key and gave up its oldest one
C35_Witness ==
  /\ Len(video_info_cache) = CACHE_LIMIT
  /\ CACHE_LIMIT + 1 \in CacheKeys(video_info_cache)
  /\ 1 \notin CacheKeys(video_info_cache)

\* the statuses of a task whose pipeline is still at work
ActiveStatuses == {"initializing", "connecting", "starting", "downloading",
                   "processing", "embedding"}

\* every answer FetchResult can give for the task is not-found
OnlyNotFound(t) == FetchResult(conversion_progress, files, t) = {NotFound}

C36_State ==
  \A t \in Tasks : (Known(t) /\ Entry(t).status \in ActiveStatuses) => OnlyNotFound(t)

C36_Step ==
  \A t \in Tasks :
    download_file(t) => (Known(t) /\ Entry(t).status = "completed")

\* C36: FetchResult serves a file only for a completed task: for a task in an active
\* state it answers not-found, streams no intermediate file and schedules no removal of
\* the task's entry
C36_ServesOnlyCompleted == []C36_State /\ [][C36_Step]_vars

\* the step that stores the completed record
MarkedCompleted(t) ==
  Known(t)' /\ Entry(t)'.status = "completed" /\ StatusOf(conversion_progress, t) # "completed"

C37_Step ==
  \A t \in Tasks :
    MarkedCompleted(t) => DOMAIN files'[t] \subseteq {Entry(t)'.filename}

\* C37: when a task is marked completed, no file with its id as prefix is left in the two
\* folders but the final output: the transcode's temp file, the fetched original (when it
\* is not the output) and the temp thumbnail are gone
C37_OnlyOutputRemains == [][C37_Step]_vars

\* an audio task that fetched a thumbnail is completed with its output as its only file
C37_Witness ==
  \E t \in Tasks :
    /\ Known(t) /\ Entry(t).status = "completed" /\ Entry(t).has_thumbnail
    /\ DOMAIN files[t] = {Entry(t).filename}

\* the steps thread th can take from where it stands
NextSteps(th) == {s \in StepsOf[th] : locking.at[th] = s.from}

\* the locks thread th is waiting for
WaitsFor(th) == {l \in {"progress_lock", "process_lock"} :
                   locking[l] # "" /\ \A s \in NextSteps(th) : l \in s.takes}

C38_State ==
  \A th \in Threads :
    \* nobody who holds process_lock is about to take progress_lock
    /\ locking.process_lock = th
         => \A s \in NextSteps(th) : "progress_lock" \notin s.takes
    \* the holder of a lock somebody waits for is not waiting itself
    /\ \A l \in WaitsFor(th) : WaitsFor(locking[l]) = {}

C38_Step ==
  \A th \in Threads :
    \* whoever comes to hold both locks had progress_lock first
    (HeldBy(th)' = {"progress_lock", "process_lock"} /\ HeldBy(th) # HeldBy(th)')
      => HeldBy(th) = {"progress_lock"}

\* C38: the threads never deadlock on the locks: when two locks are nested progress_lock is
\* taken before process_lock, no thread waits for progress_lock while it holds
\* process_lock, and a thread that waits for a lock waits for a thread that can go on
C38_NoDeadlock == []C38_State /\ [][C38_Step]_vars

\* the StallMonitor holds both locks while Cancel waits for progress_lock and the
\* supervisor for process_lock
C38_Witness ==
  /\ HeldBy("monitor") = {"progress_lock", "process_lock"}
  /\ locking.at["cancel"] = "unlocked" /\ WaitsFor("cancel") = {"progress_lock"}
  /\ locking.at["supervisor"] = "idle" /\ WaitsFor("supervisor") = {"process_lock"}

\* the task's entry is still the one Submit stored
Initializing(t) == Known(t) /\ Entry(t).status = "initializing"

\* the ways out of initializing: admitted, refused by the gate, cancelled
C39_LeftBy(t) ==
  \/ RunConnecting(t)
  \/ RunExceptWrite(t) /\ run[t].err = "Server busy"
  \/ cancel_download(t)

C39_Step ==
  \A t \in Tasks :
    /\ Initializing(t) => ~(Known(t)' /\ Entry(t)'.message = StalledMessage)
    /\ (Initializing(t) /\ ~Initializing(t)') => C39_LeftBy(t)

\* C39: a task that waits for a permit, with status initializing, is never failed by the
\* StallMonitor, the wait of 120 s being shorter than the 180 s that apply to it: it
\* leaves initializing only by being admitted, by the server-busy failure or by Cancel
C39_WaitingNotStalled ==
  /\ [](\A t \in Tasks : Initializing(t) => Entry(t).age < STALL_TIMEOUT)
  /\ [][C39_Step]_vars

\* ------------------------------------------------------------------ C40
\* the child process of the task was running and has been terminated from outside
\* the run: by cancel_download or by the scan of check_stalled_downloads (the
\* supervisor's own timeout reaps the child at once and never leaves it killed)
ChildKilled(t) == proc[t] = "killed"

\* the run has a child process again: Popen has returned a new one
ChildStarted(t) == proc[t] = "running"

\* C40: after Cancel or a StallMonitor kill has terminated a task's child process,
\* the still-running pipeline run never starts a new external process for that task
\* (and so never registers a new handle for it); a remux killed by Cancel is not
\* followed by the full re-encode fallback.
C40_NoNewProcessAfterKill ==
  \A t \in Tasks : [](ChildKilled(t) => [](~ChildStarted(t)))

====
